---- MODULE Spec2Model ----
(***************************************************************************)
(* A model of nexwick: the byte parser, the label storage and resolver,    *)
(* the tree arena and its builders, the Newick parser and the NEXUS parser *)
(* with its burn-in / skip-first windowing and eager / lazy retrieval.     *)
(*                                                                         *)
(* A byte is a one-character string and an input is a sequence of bytes.   *)
(* Positions are 0-based byte offsets as in the source: the byte at        *)
(* position p of inp is inp[p + 1].  Every parsing operation returns a     *)
(* record whose field st is "ok", "err" (a ParsingError is returned),      *)
(* "panic" (an assert / unwrap / expect aborts the thread) or "hang" (a    *)
(* loop that makes no progress).                                           *)
(***************************************************************************)
EXTENDS Integers, Sequences, FiniteSets, TLC

VARIABLES
    nx,        \* the NEXUS parsers of the caller: id -> file, configuration, parser object
    out,       \* what the caller got back from each NEXUS parser so far
    calls,     \* number of retrieval / reset calls issued so far
    nw,        \* a Newick parser of the caller, its input and what it returned
    ls,        \* a label storage driven directly, and its last store_and_ref call
    rs,        \* a label resolver driven directly, and its last resolve_label call
    tb,        \* a tree builder driven directly, and the trees it handed out
    lb,        \* a label handed to escape_label / unescape_label / the label parser
    ar,        \* a tree arena (GenTree) filled directly, and what its checks returned
    debug_assertions  \* cfg(debug_assertions) of the build: debug_assert! is live

vars == <<nx, out, calls, nw, ls, rs, tb, lb, ar, debug_assertions>>

(***************************************************************************)
(* Bytes                                                                   *)
(***************************************************************************)
EOF == "EOF"

UpperCase == <<"A","B","C","D","E","F","G","H","I","J","K","L","M",
               "N","O","P","Q","R","S","T","U","V","W","X","Y","Z">>
LowerCase == <<"a","b","c","d","e","f","g","h","i","j","k","l","m",
               "n","o","p","q","r","s","t","u","v","w","x","y","z">>
Digits == <<"0","1","2","3","4","5","6","7","8","9">>

to_ascii_lowercase(b) ==
    IF \E i \in DOMAIN UpperCase : UpperCase[i] = b
    THEN LowerCase[CHOOSE i \in DOMAIN UpperCase : UpperCase[i] = b]
    ELSE b

to_ascii_uppercase(b) ==
    IF \E i \in DOMAIN LowerCase : LowerCase[i] = b
    THEN UpperCase[CHOOSE i \in DOMAIN LowerCase : LowerCase[i] = b]
    ELSE b

is_ascii_digit(b) == \E i \in DOMAIN Digits : Digits[i] = b

digit_value(b) == (CHOOSE i \in DOMAIN Digits : Digits[i] = b) - 1

\* The comparison used by peek_is and the *_sequence matchers.
byte_matches(input_byte, seq_byte) ==
    \/ input_byte = seq_byte
    \/ input_byte = to_ascii_lowercase(seq_byte)
    \/ input_byte = to_ascii_uppercase(seq_byte)

WHITESPACE == {" ", "\t", "\n", "\r"}

NEXUS_LABEL_DELIMITERS == {" ", ",", ";", "\t", "\n", "\r"}
NEWICK_LABEL_DELIMITERS == {"(", "[", ",", ":", ";", " ", "\n", "\t", "\r", ")", "]"}

NEXUS_HEADER == <<"#","N","E","X","U","S">>
BLOCK_BEGIN == <<"B","e","g","i","n">>
BLOCK_END == <<"E","n","d",";">>
DIMENSIONS == <<"D","i","m","e","n","s","i","o","n","s">>
NTAX == <<"n","t","a","x">>
TAXLABELS == <<"T","a","x","l","a","b","e","l","s">>
TRANSLATE == <<"T","r","a","n","s","l","a","t","e">>
TREE == <<"t","r","e","e">>

DEFAULT_CONTEXT_LENGTH == 50
DEFAULT_NUM_LEAVES_GUESS == 10
SIGNIFICANT_BURNIN_THRESHOLD == 100

(***************************************************************************)
(* The({e : x \in {v}}) is e where x = v: a local binding, evaluated once *)
(* and in program order, read from the innermost line outwards.            *)
(***************************************************************************)
The(S) == CHOOSE v \in S : TRUE

(***************************************************************************)
(* Byte parser                                                             *)
(***************************************************************************)
peek(inp, pos) == IF pos < Len(inp) THEN inp[pos + 1] ELSE EOF

is_eof(inp, pos) == pos >= Len(inp)

\* next / next_byte: the position after consuming one byte, if there is one.
next_byte(inp, pos) == IF pos < Len(inp) THEN pos + 1 ELSE pos

peek_is(inp, pos, ch) == pos < Len(inp) /\ byte_matches(inp[pos + 1], ch)

consume_if(inp, pos, ch) ==
    IF peek_is(inp, pos, ch) THEN [ok |-> TRUE, pos |-> pos + 1]
                             ELSE [ok |-> FALSE, pos |-> pos]

RECURSIVE skip_whitespace(_, _)
skip_whitespace(inp, pos) ==
    IF pos < Len(inp) /\ inp[pos + 1] \in WHITESPACE
    THEN skip_whitespace(inp, pos + 1)
    ELSE pos

\* the first position from pos on whose byte satisfies hit, or the end
first_from(inp, pos, hits) ==
    IF hits = {} THEN IF pos >= Len(inp) THEN pos ELSE Len(inp)
    ELSE CHOOSE k \in hits : \A j \in hits : k <= j

\* the cursor moves byte by byte: it stops at the first target or at the end
consume_until(inp, pos, target, mode) ==
    The({
        IF hits = {} THEN [found |-> FALSE, pos |-> first_from(inp, pos, hits)]
        ELSE [found |-> TRUE,
              pos |-> IF mode = "Inclusive" THEN first_from(inp, pos, hits) + 1
                      ELSE first_from(inp, pos, hits)]
        : hits \in {{k \in pos..(Len(inp) - 1) : inp[k + 1] = target}} })

peek_is_sequence(inp, pos, sequence) ==
    /\ pos + Len(sequence) <= Len(inp)
    /\ \A i \in 1..Len(sequence) : byte_matches(inp[pos + i], sequence[i])

consume_if_sequence(inp, pos, sequence) ==
    IF peek_is_sequence(inp, pos, sequence)
    THEN [ok |-> TRUE, pos |-> pos + Len(sequence)]
    ELSE [ok |-> FALSE, pos |-> pos]

\* stops at the first match of the whole sequence; without one the cursor
\* stays where fewer bytes than the sequence remain
consume_until_sequence(inp, pos, sequence, mode) ==
    The({
        IF hits = {}
        THEN [found |-> FALSE,
              pos |-> IF pos + Len(sequence) > Len(inp) THEN pos
                      ELSE Len(inp) - Len(sequence) + 1]
        ELSE [found |-> TRUE,
              pos |-> IF mode = "Inclusive"
                      THEN first_from(inp, pos, hits) + Len(sequence)
                      ELSE first_from(inp, pos, hits)]
        : hits \in {{k \in pos..(Len(inp) - Len(sequence)) :
                        peek_is_sequence(inp, k, sequence)}} })

get_context(inp, pos, k) ==
    LET end == IF pos + k < Len(inp) THEN pos + k ELSE Len(inp)
    IN  SubSeq(inp, pos + 1, end)

\* ParsingError::from_parser: kind, byte position and trailing context.
from_parser(kind, inp, pos) ==
    [kind |-> kind, position |-> pos,
     context |-> get_context(inp, pos, DEFAULT_CONTEXT_LENGTH)]

\* st is "true" (a comment was consumed), "false" (none here) or "err".
skip_comment(inp, pos) ==
    LET open == consume_if(inp, pos, "[")
    IN  IF open.ok
        THEN LET r == consume_until(inp, open.pos, "]", "Inclusive")
             IN  IF ~r.found
                 THEN [st |-> "err", pos |-> r.pos,
                       err |-> from_parser("UnclosedComment", inp, r.pos)]
                 ELSE [st |-> "true", pos |-> r.pos]
        ELSE [st |-> "false", pos |-> pos]

RECURSIVE skip_comments_loop(_, _)
skip_comments_loop(inp, pos) ==
    LET c == skip_comment(inp, pos)
    IN  IF c.st = "err" THEN c
        ELSE IF c.st = "true" THEN skip_comments_loop(inp, skip_whitespace(inp, c.pos))
        ELSE [st |-> "ok", pos |-> pos]

skip_comment_and_whitespace(inp, pos) ==
    skip_comments_loop(inp, skip_whitespace(inp, pos))

\* The opening quote is consumed first; the loop ends at the closing quote
\* or when next() returns None.
RECURSIVE quoted_label_loop(_, _, _)
quoted_label_loop(inp, pos, label) ==
    IF pos >= Len(inp) THEN [st |-> "ok", pos |-> pos, label |-> label]
    ELSE IF inp[pos + 1] = "'"
         THEN IF peek(inp, pos + 1) = "'"
              THEN quoted_label_loop(inp, pos + 2, Append(label, "'"))
              ELSE [st |-> "ok", pos |-> pos + 1, label |-> label]
         ELSE quoted_label_loop(inp, pos + 1, Append(label, inp[pos + 1]))

parse_quoted_label(inp, pos) == quoted_label_loop(inp, next_byte(inp, pos), <<>>)

RECURSIVE unquoted_label_loop(_, _, _, _)
unquoted_label_loop(inp, pos, delimiters, label) ==
    IF pos >= Len(inp) \/ inp[pos + 1] \in delimiters
    THEN [st |-> "ok", pos |-> pos, label |-> label]
    ELSE unquoted_label_loop(inp, pos + 1, delimiters, Append(label, inp[pos + 1]))

parse_unquoted_label(inp, pos, delimiters) ==
    unquoted_label_loop(inp, pos, delimiters, <<>>)

parse_label(inp, pos, delimiters) ==
    LET p == skip_whitespace(inp, pos)
    IN  IF peek(inp, p) = "'" THEN parse_quoted_label(inp, p)
        ELSE parse_unquoted_label(inp, p, delimiters)

(***************************************************************************)
(* str::parse::<usize>() and str::parse::<f64>() on byte strings           *)
(***************************************************************************)
RECURSIVE digits_value(_)
digits_value(s) ==
    IF s = <<>> THEN 0
    ELSE 10 * digits_value(SubSeq(s, 1, Len(s) - 1)) + digit_value(s[Len(s)])

all_digits(s) == \A i \in 1..Len(s) : is_ascii_digit(s[i])

\* usize::from_str: an optional '+', then at least one digit.
parse_usize(s) ==
    LET body == IF Len(s) > 0 /\ s[1] = "+" THEN Tail(s) ELSE s
    IN  IF Len(body) > 0 /\ all_digits(body)
        THEN [ok |-> TRUE, v |-> digits_value(body)]
        ELSE [ok |-> FALSE]

\* f64::from_str restricted to the bytes parse_branch_length lets through
\* ([0-9.+-eE]): [sign] digits ['.' digits] [('e'|'E') [sign] digits], with at
\* least one digit in the mantissa.  The value is mant * 10^exp, normalised so
\* that mant has no trailing zero; inf marks a value beyond f64::MAX
\* (1.7976931348623157e308, compared on five leading digits) and a magnitude
\* below the smallest subnormal (about 4.9e-324) rounds to zero.
first_index(s, set) ==
    IF \E i \in 1..Len(s) : s[i] \in set
    THEN CHOOSE i \in 1..Len(s) : s[i] \in set /\ \A j \in 1..(i - 1) : s[j] \notin set
    ELSE 0

RECURSIVE strip_trailing_zeros(_)
strip_trailing_zeros(v) ==
    IF v.mant = 0 THEN [v EXCEPT !.exp = 0]
    ELSE IF v.mant % 10 = 0
         THEN strip_trailing_zeros([v EXCEPT !.mant = v.mant \div 10, !.exp = v.exp + 1])
         ELSE v

RECURSIVE num_digits(_)
num_digits(n) == IF n < 10 THEN 1 ELSE 1 + num_digits(n \div 10)

RECURSIVE leading_digits(_, _)
leading_digits(n, k) ==
    IF num_digits(n) > k THEN leading_digits(n \div 10, k)
    ELSE IF num_digits(n) < k THEN leading_digits(n * 10, k)
    ELSE n

round_f64(v) ==
    LET n == strip_trailing_zeros(v)
        order == num_digits(n.mant) + n.exp - 1
    IN  IF n.mant = 0 THEN n
        ELSE IF order > 308 \/ (order = 308 /\ leading_digits(n.mant, 5) >= 17977)
             THEN [neg |-> n.neg, inf |-> TRUE, mant |-> 1, exp |-> 0]
        ELSE IF order < 0 - 324
             THEN [neg |-> n.neg, inf |-> FALSE, mant |-> 0, exp |-> 0]
        ELSE n

parse_f64(s) ==
    LET signed == Len(s) > 0 /\ s[1] \in {"+", "-"}
        neg == Len(s) > 0 /\ s[1] = "-"
        body == IF signed THEN Tail(s) ELSE s
        e == first_index(body, {"e", "E"})
        m == IF e = 0 THEN body ELSE SubSeq(body, 1, e - 1)
        x == IF e = 0 THEN <<>> ELSE SubSeq(body, e + 1, Len(body))
        dot == first_index(m, {"."})
        int == IF dot = 0 THEN m ELSE SubSeq(m, 1, dot - 1)
        frac == IF dot = 0 THEN <<>> ELSE SubSeq(m, dot + 1, Len(m))
        xsigned == Len(x) > 0 /\ x[1] \in {"+", "-"}
        xdigits == IF xsigned THEN Tail(x) ELSE x
        xval == IF Len(x) > 0 /\ x[1] = "-" THEN 0 - digits_value(xdigits)
                ELSE digits_value(xdigits)
        well_formed ==
            /\ all_digits(int) /\ all_digits(frac)
            /\ Len(int) + Len(frac) > 0
            /\ e # 0 => (Len(xdigits) > 0 /\ all_digits(xdigits))
    IN  IF well_formed
        THEN [ok |-> TRUE,
              v |-> round_f64([neg |-> neg, inf |-> FALSE,
                               mant |-> digits_value(int \o frac),
                               exp |-> xval - Len(frac)])]
        ELSE [ok |-> FALSE]

f64_is_finite(v) == ~v.inf
\* length >= 0.0 (true of -0.0 as well)
f64_ge_zero(v) == ~v.neg \/ (v.mant = 0 /\ ~v.inf)

\* f64 addition of two non-negative values (branch lengths and their sums)
RECURSIVE pow10(_)
pow10(k) == IF k <= 0 THEN 1 ELSE 10 * pow10(k - 1)

f64_zero == [neg |-> FALSE, inf |-> FALSE, mant |-> 0, exp |-> 0]

f64_add(a, b) ==
    IF a.inf \/ b.inf THEN [neg |-> FALSE, inf |-> TRUE, mant |-> 1, exp |-> 0]
    ELSE \* both finite: add the mantissas at the smaller exponent
         round_f64([neg |-> FALSE, inf |-> FALSE,
                    mant |-> a.mant * pow10(a.exp - (IF a.exp < b.exp THEN a.exp ELSE b.exp))
                             + b.mant * pow10(b.exp - (IF a.exp < b.exp THEN a.exp ELSE b.exp)),
                    exp |-> IF a.exp < b.exp THEN a.exp ELSE b.exp])

(***************************************************************************)
(* Label storage: LeafLabelMap and SimpleLabelStorage                      *)
(***************************************************************************)
EmptyMap == [x \in {} |-> 0]

LeafLabelMap_new(num_leaves) ==
    [kind |-> "LeafLabelMap", num_leaves |-> num_leaves,
     labels |-> <<>>, map |-> EmptyMap]

SimpleLabelStorage_with_capacity(num_labels) ==
    [kind |-> "SimpleLabelStorage", labels |-> <<>>]

\* LeafLabelMap::get_or_insert.  The debug_assert! aborts a debug build when
\* the new index is not below the capacity hint.
get_or_insert(storage, s) ==
    IF s \in DOMAIN storage.map
    THEN [st |-> "ok", storage |-> storage, ref |-> storage.map[s]]
    ELSE LET idx == Len(storage.labels)
             grown == [storage EXCEPT
                         !.labels = Append(storage.labels, s),
                         !.map = [l \in DOMAIN storage.map \cup {s} |->
                                     IF l = s THEN idx ELSE storage.map[l]]]
         IN  IF debug_assertions /\ ~(idx < storage.num_leaves)
             THEN [st |-> "panic", storage |-> grown, ref |-> idx]
             ELSE [st |-> "ok", storage |-> grown, ref |-> idx]

SimpleLabelStorage_store_and_ref(storage, label) ==
    [st |-> "ok",
     storage |-> [storage EXCEPT !.labels = Append(storage.labels, label)],
     ref |-> label]

store_and_ref(storage, label) ==
    IF storage.kind = "LeafLabelMap" THEN get_or_insert(storage, label)
    ELSE SimpleLabelStorage_store_and_ref(storage, label)

check_and_ref(storage, label) ==
    IF storage.kind = "LeafLabelMap"
    THEN IF label \in DOMAIN storage.map
         THEN [some |-> TRUE, ref |-> storage.map[label]]
         ELSE [some |-> FALSE]
    ELSE IF \E i \in 1..Len(storage.labels) : storage.labels[i] = label
         THEN [some |-> TRUE, ref |-> label]
         ELSE [some |-> FALSE]

index_to_ref(storage, index) ==
    IF storage.kind = "LeafLabelMap" THEN index ELSE storage.labels[index + 1]

num_labels(storage) == Len(storage.labels)

with_capacity(builder_kind, capacity) ==
    IF builder_kind = "Compact" THEN LeafLabelMap_new(capacity)
    ELSE SimpleLabelStorage_with_capacity(capacity)

(***************************************************************************)
(* Label resolver                                                          *)
(***************************************************************************)
new_verbatim_labels_resolver(storage) ==
    [kind |-> "VerbatimLabels", storage |-> storage]

\* translation is the TRANSLATE map, a function from key to taxon label.
new_nexus_labels_resolver(translation, storage) ==
    IF \E key \in DOMAIN translation : ~check_and_ref(storage, translation[key]).some
    THEN [st |-> "panic"]
    ELSE [st |-> "ok",
          resolver |-> [kind |-> "NexusLabels",
                        index_map |-> [key \in DOMAIN translation |->
                                          check_and_ref(storage, translation[key]).ref],
                        storage |-> storage]]

new_nexus_integer_labels_resolver(translation, storage) ==
    LET n == num_labels(storage)
        index_of(key) == parse_usize(key)
        bad_key(key) ==
            \/ ~index_of(key).ok
            \/ index_of(key).v = 0 \/ index_of(key).v > n
            \/ ~check_and_ref(storage, translation[key]).some
        keys_at(i) == {key \in DOMAIN translation : index_of(key).v = i}
    IN  IF \E key \in DOMAIN translation : bad_key(key) THEN [st |-> "panic"]
        ELSE IF \E i \in 1..n : keys_at(i) = {} THEN [st |-> "panic"]
        ELSE [st |-> "ok",
              resolver |-> [kind |-> "NexusIntegerLabels",
                            index_array |-> [i \in 1..n |->
                                check_and_ref(storage,
                                    translation[CHOOSE key \in keys_at(i) : TRUE]).ref],
                            storage |-> storage]]

resolve_VerbatimLabels(resolver, parsed_label) ==
    LET r == store_and_ref(resolver.storage, parsed_label)
    IN  [st |-> r.st, resolver |-> [resolver EXCEPT !.storage = r.storage],
         ref |-> r.ref, stage |-> "verbatim"]

\* resolve_label of the table-based resolver with stage 2 (the integer
\* index) tried before stage 1 (the table)
resolve_NexusLabels_index_first(resolver, parsed_label) ==
    LET idx == parse_usize(parsed_label)
        verbatim_try == check_and_ref(resolver.storage, parsed_label)
    IN  IF idx.ok
        THEN IF idx.v = 0 \/ idx.v > num_labels(resolver.storage)
             THEN [st |-> "err", resolver |-> resolver, stage |-> "index"]
             ELSE [st |-> "ok", resolver |-> resolver,
                   ref |-> index_to_ref(resolver.storage, idx.v - 1), stage |-> "index"]
        ELSE IF parsed_label \in DOMAIN resolver.index_map
        THEN [st |-> "ok", resolver |-> resolver,
              ref |-> resolver.index_map[parsed_label], stage |-> "key"]
        ELSE IF verbatim_try.some
        THEN [st |-> "ok", resolver |-> resolver, ref |-> verbatim_try.ref,
              stage |-> "verbatim"]
        ELSE [st |-> "err", resolver |-> resolver, stage |-> "none"]

resolve_NexusLabels(resolver, parsed_label) ==
    LET idx == parse_usize(parsed_label)
        verbatim_try == check_and_ref(resolver.storage, parsed_label)
    IN  IF parsed_label \in DOMAIN resolver.index_map
        THEN [st |-> "ok", resolver |-> resolver,
              ref |-> resolver.index_map[parsed_label], stage |-> "key"]
        ELSE IF idx.ok
        THEN IF idx.v = 0 \/ idx.v > num_labels(resolver.storage)
             THEN [st |-> "err", resolver |-> resolver, stage |-> "index"]
             ELSE [st |-> "ok", resolver |-> resolver,
                   ref |-> index_to_ref(resolver.storage, idx.v - 1), stage |-> "index"]
        ELSE IF verbatim_try.some
        THEN [st |-> "ok", resolver |-> resolver, ref |-> verbatim_try.ref,
              stage |-> "verbatim"]
        ELSE [st |-> "err", resolver |-> resolver, stage |-> "none"]

resolve_NexusIntegerLabels(resolver, parsed_label) ==
    LET idx == parse_usize(parsed_label)
    IN  IF idx.ok
        THEN IF idx.v = 0 \/ idx.v > Len(resolver.index_array)
             THEN [st |-> "err", resolver |-> resolver, stage |-> "index"]
             ELSE [st |-> "ok", resolver |-> resolver,
                   ref |-> resolver.index_array[idx.v], stage |-> "index"]
        ELSE [st |-> "err", resolver |-> resolver, stage |-> "none"]

resolve_label(resolver, parsed_label) ==
    CASE resolver.kind = "VerbatimLabels" -> resolve_VerbatimLabels(resolver, parsed_label)
      [] resolver.kind = "NexusLabels" -> resolve_NexusLabels(resolver, parsed_label)
      [] resolver.kind = "NexusIntegerLabels" ->
            resolve_NexusIntegerLabels(resolver, parsed_label)

(***************************************************************************)
(* Vertices and the tree arena (GenTree)                                   *)
(***************************************************************************)
None == [some |-> FALSE]
Some(v) == [some |-> TRUE, v |-> v]

\* usize::MAX, the "not set" marker of a parent and of the root index.
NO_PARENT_SET == 0 - 1
NO_ROOT_SET_INDEX == 0 - 1

new_root(index, children, branch_length) ==
    [kind |-> "Root", index |-> index, children |-> children,
     branch_length |-> branch_length]

new_internal(index, children, branch_length) ==
    [kind |-> "Internal", index |-> index, parent |-> NO_PARENT_SET,
     children |-> children, branch_length |-> branch_length]

new_leaf(index, branch_length, label) ==
    [kind |-> "Leaf", index |-> index, label |-> label, parent |-> NO_PARENT_SET,
     branch_length |-> branch_length]

is_root(v) == v.kind = "Root"
is_internal(v) == v.kind = "Internal"
is_leaf(v) == v.kind = "Leaf"
has_parent(v) == ~is_root(v) /\ v.parent # NO_PARENT_SET
has_children(v) == ~is_leaf(v)

GenTree_new(num_leaves) ==
    [num_leaves_init |-> num_leaves, vertices |-> <<>>,
     root_index |-> NO_ROOT_SET_INDEX, name |-> None]

\* self[child].set_parent(index); an index outside the arena or a Root child
\* aborts.
can_set_parent(tree, child) ==
    /\ child >= 0 /\ child < Len(tree.vertices)
    /\ ~is_root(tree.vertices[child + 1])

set_parents(vertices, children, index) ==
    [i \in DOMAIN vertices |->
        IF i - 1 = children[1] \/ i - 1 = children[2]
        THEN [vertices[i] EXCEPT !.parent = index]
        ELSE vertices[i]]

\* add_root pushing an Internal vertex: the arena is left without a Root.
GenTree_add_root_unmarked(tree, children, branch_length) ==
    LET index == Len(tree.vertices)
        pushed == [tree EXCEPT
                     !.vertices = Append(tree.vertices,
                                         new_internal(index, children, branch_length)),
                     !.root_index = index]
    IN  IF can_set_parent(pushed, children[1]) /\ can_set_parent(pushed, children[2])
        THEN [st |-> "ok", idx |-> index,
              tree |-> [pushed EXCEPT
                          !.vertices = set_parents(pushed.vertices, children, index)]]
        ELSE [st |-> "panic", idx |-> index, tree |-> pushed]

GenTree_add_root(tree, children, branch_length) ==
    LET index == Len(tree.vertices)
        pushed == [tree EXCEPT
                     !.vertices = Append(tree.vertices,
                                         new_root(index, children, branch_length)),
                     !.root_index = index]
    IN  IF can_set_parent(pushed, children[1]) /\ can_set_parent(pushed, children[2])
        THEN [st |-> "ok", idx |-> index,
              tree |-> [pushed EXCEPT
                          !.vertices = set_parents(pushed.vertices, children, index)]]
        ELSE [st |-> "panic", idx |-> index, tree |-> pushed]

GenTree_add_internal_vertex(tree, children, branch_length) ==
    LET index == Len(tree.vertices)
        pushed == [tree EXCEPT
                     !.vertices = Append(tree.vertices,
                                         new_internal(index, children, branch_length))]
    IN  IF can_set_parent(pushed, children[1]) /\ can_set_parent(pushed, children[2])
        THEN [st |-> "ok", idx |-> index,
              tree |-> [pushed EXCEPT
                          !.vertices = set_parents(pushed.vertices, children, index)]]
        ELSE [st |-> "panic", idx |-> index, tree |-> pushed]

GenTree_add_leaf(tree, branch_length, label) ==
    LET index == Len(tree.vertices)
    IN  [st |-> "ok", idx |-> index,
         tree |-> [tree EXCEPT
                     !.vertices = Append(tree.vertices,
                                         new_leaf(index, branch_length, label))]]

num_vertices(tree) == Len(tree.vertices)

num_leaves_of(tree) ==
    Cardinality({i \in DOMAIN tree.vertices : is_leaf(tree.vertices[i])})

num_roots_of(tree) ==
    Cardinality({i \in DOMAIN tree.vertices : is_root(tree.vertices[i])})

div_ceil(a, b) == (a + b - 1) \div b

\* ValidLabel::is_valid_for_tree: a LabelIndex is below the tree's own leaf
\* count, a String label is non-empty.
is_valid_for_tree(builder_kind, label, num_leaves) ==
    IF builder_kind = "Compact" THEN label < num_leaves ELSE label # <<>>

is_valid(builder_kind, tree) ==
    LET vs == tree.vertices
        n == Len(vs)
        in_range(i) == i >= 0 /\ i < n
        vertex_ok(index) ==
            LET vertex == vs[index + 1]
            IN  /\ vertex.index = index
                /\ has_children(vertex) =>
                      /\ in_range(vertex.children[1]) /\ in_range(vertex.children[2])
                      /\ has_parent(vs[vertex.children[1] + 1])
                      /\ vs[vertex.children[1] + 1].parent = index
                      /\ has_parent(vs[vertex.children[2] + 1])
                      /\ vs[vertex.children[2] + 1].parent = index
                /\ ~is_root(vertex) =>
                      /\ has_parent(vertex)
                      /\ in_range(vertex.parent)
                      /\ has_children(vs[vertex.parent + 1])
                      /\ \/ vs[vertex.parent + 1].children[1] = index
                         \/ vs[vertex.parent + 1].children[2] = index
                /\ is_leaf(vertex) =>
                      is_valid_for_tree(builder_kind, vertex.label, num_leaves_of(tree))
    IN  /\ tree.root_index # NO_ROOT_SET_INDEX
        /\ in_range(tree.root_index)
        /\ is_root(vs[tree.root_index + 1])
        /\ num_roots_of(tree) <= 1
        /\ \A index \in 0..(n - 1) : vertex_ok(index)
        /\ num_leaves_of(tree) = div_ceil(n, 2)

(***************************************************************************)
(* Heights.  GenTree::height_of walks from the vertex along the first      *)
(* child to a leaf and adds the branch lengths; a walk longer than the     *)
(* arena has met a vertex twice and never ends.  Tree::height_of is the    *)
(* same function of the Tree arena; the `let vertex` in its loop body      *)
(* shadows the argument inside one iteration only, so every iteration      *)
(* starts from the argument again.                                         *)
(***************************************************************************)
RECURSIVE height_of_loop(_, _, _, _)
height_of_loop(tree, current_vertex, height, steps) ==
    IF is_leaf(current_vertex) THEN [st |-> "ok", height |-> height]
    ELSE IF steps > Len(tree.vertices) THEN [st |-> "hang"]
    ELSE IF current_vertex.children[1] >= Len(tree.vertices) THEN [st |-> "panic"]
    ELSE The({
        IF ~child.branch_length.some THEN [st |-> "panic"]
        ELSE height_of_loop(tree, child, f64_add(height, child.branch_length.v),
                            steps + 1)
        : child \in {tree.vertices[current_vertex.children[1] + 1]} })

height_of(tree, vertex) == height_of_loop(tree, vertex, f64_zero, 0)

Tree_height_of(tree, vertex) ==
    IF ~has_children(vertex) THEN [st |-> "panic"]
    ELSE IF vertex.children[1] >= Len(tree.vertices) THEN [st |-> "panic"]
    ELSE The({
        IF ~child.branch_length.some THEN [st |-> "panic"]
        ELSE IF is_leaf(child)
        THEN [st |-> "ok", height |-> f64_add(f64_zero, child.branch_length.v)]
        ELSE [st |-> "hang"]
        : child \in {tree.vertices[vertex.children[1] + 1]} })

(***************************************************************************)
(* Post-order traversal (PostOrderIter): the stack holds pairs             *)
(* (index, children_visited), its top is the last element.                 *)
(***************************************************************************)
is_root_set(tree) == tree.root_index # NO_ROOT_SET_INDEX

PostOrderIter_new(tree) ==
    [stack |-> IF is_root_set(tree) THEN << <<tree.root_index, FALSE>> >> ELSE <<>>]

post_order_iter(tree) == PostOrderIter_new(tree)

\* next handing out a vertex when it is first popped, its children after it
RECURSIVE PostOrderIter_next_parent_first(_, _)
PostOrderIter_next_parent_first(tree, iter) ==
    IF iter.stack = <<>> THEN [iter |-> iter, item |-> None]
    ELSE LET top == iter.stack[Len(iter.stack)]
             rest == SubSeq(iter.stack, 1, Len(iter.stack) - 1)
             vertex == tree.vertices[top[1] + 1]
         IN  IF is_leaf(vertex)
             THEN [iter |-> [stack |-> rest], item |-> Some(vertex)]
             ELSE [iter |-> [stack |-> rest \o << <<vertex.children[2], FALSE>>,
                                                  <<vertex.children[1], FALSE>> >>],
                   item |-> Some(vertex)]

\* Iterator::next: item is Some(vertex) or None
RECURSIVE PostOrderIter_next(_, _)
PostOrderIter_next(tree, iter) ==
    IF iter.stack = <<>> THEN [iter |-> iter, item |-> None]
    ELSE LET top == iter.stack[Len(iter.stack)]
             rest == SubSeq(iter.stack, 1, Len(iter.stack) - 1)
             vertex == tree.vertices[top[1] + 1]
         IN  IF top[2] \/ is_leaf(vertex)
             THEN [iter |-> [stack |-> rest], item |-> Some(vertex)]
             ELSE PostOrderIter_next(tree,
                      [stack |-> rest \o << <<top[1], TRUE>>,
                                            <<vertex.children[2], FALSE>>,
                                            <<vertex.children[1], FALSE>> >>])

\* a caller draining the iterator: the items up to the first None
RECURSIVE collect(_, _, _)
collect(tree, iter, items) ==
    The({
        IF r.item.some THEN collect(tree, r.iter, Append(items, r.item.v))
        ELSE items
        : r \in {PostOrderIter_next(tree, iter)} })

(***************************************************************************)
(* Tree builders (CompactTreeBuilder, SimpleTreeBuilder)                   *)
(***************************************************************************)
TreeBuilder_new(builder_kind) == [kind |-> builder_kind, current_tree |-> None]

\* a constructor without the two assertions
BranchLength_new_unchecked(length) == TRUE

\* BranchLength::new: both assertions.
BranchLength_new_ok(length) == f64_ge_zero(length) /\ f64_is_finite(length)

branch_len_ok(branch_len) == branch_len.some => BranchLength_new_ok(branch_len.v)

\* GenTree::new asserts num_leaves > 0.
init_next(builder, num_leaves) ==
    IF num_leaves > 0
    THEN [st |-> "ok",
          builder |-> [builder EXCEPT !.current_tree = Some(GenTree_new(num_leaves))]]
    ELSE [st |-> "panic", builder |-> builder]

set_name(builder, tree_name) ==
    IF builder.current_tree.some
    THEN [builder EXCEPT !.current_tree.v.name = Some(tree_name)]
    ELSE builder

\* apply one of the add_* calls to the current tree; "init not called" and a
\* rejected branch length abort.
builder_add(builder, branch_len, r) ==
    IF ~builder.current_tree.some \/ ~branch_len_ok(branch_len)
    THEN [st |-> "panic", builder |-> builder]
    ELSE [st |-> r.st, idx |-> r.idx,
          builder |-> [builder EXCEPT !.current_tree = Some(r.tree)]]

add_leaf(builder, branch_len, label) ==
    IF builder.current_tree.some
    THEN builder_add(builder, branch_len,
                     GenTree_add_leaf(builder.current_tree.v, branch_len, label))
    ELSE [st |-> "panic", builder |-> builder]

add_internal(builder, children, branch_len) ==
    IF builder.current_tree.some
    THEN builder_add(builder, branch_len,
                     GenTree_add_internal_vertex(builder.current_tree.v, children, branch_len))
    ELSE [st |-> "panic", builder |-> builder]

add_root(builder, children, branch_len) ==
    IF builder.current_tree.some
    THEN builder_add(builder, branch_len,
                     GenTree_add_root(builder.current_tree.v, children, branch_len))
    ELSE [st |-> "panic", builder |-> builder]

\* finish_tree handing out a copy and keeping the tree
finish_tree_keep(builder) == [tree |-> builder.current_tree, builder |-> builder]

\* Option::take
finish_tree(builder) ==
    [tree |-> builder.current_tree,
     builder |-> [builder EXCEPT !.current_tree = None]]

(***************************************************************************)
(* Newick parser                                                           *)
(* np is the NewickParser object: know_num_leaves, num_leaves,             *)
(* tree_builder, resolver, parse_annotations.  Each parse_* returns the    *)
(* parser object as the call left it, also when it fails.                  *)
(***************************************************************************)
\* NewickParser::new(tree_builder) for either builder
NewickParser_new(builder_kind) ==
    [know_num_leaves |-> FALSE, num_leaves |-> DEFAULT_NUM_LEAVES_GUESS,
     tree_builder |-> TreeBuilder_new(builder_kind),
     resolver |-> new_verbatim_labels_resolver(
                      with_capacity(builder_kind, DEFAULT_NUM_LEAVES_GUESS)),
     parse_annotations |-> FALSE]

set_num_leaves(np, num_leaves) ==
    [np EXCEPT !.num_leaves = num_leaves, !.know_num_leaves = TRUE]

set_resolver(np, resolver) == [np EXCEPT !.resolver = resolver]

Fail(np, pos, err) == [st |-> "err", pos |-> pos, np |-> np, err |-> err]
Abort(np, pos) == [st |-> "panic", pos |-> pos, np |-> np]

invalid_formatting(inp, pos) == from_parser("InvalidFormatting", inp, pos)

invalid_newick_string(inp, pos) == from_parser("InvalidNewickString", inp, pos)

FLOAT_BYTES == {".", "-", "+", "e", "E"}

RECURSIVE branch_length_scan(_, _, _)
branch_length_scan(inp, pos, acc) ==
    IF pos < Len(inp) /\ (is_ascii_digit(inp[pos + 1]) \/ inp[pos + 1] \in FLOAT_BYTES)
    THEN branch_length_scan(inp, pos + 1, Append(acc, inp[pos + 1]))
    ELSE [pos |-> pos, str |-> acc]

parse_branch_length(inp, pos) ==
    The({
        IF s1.st = "err" THEN s1
        ELSE IF ~peek_is(inp, s1.pos, ":") THEN [st |-> "ok", pos |-> s1.pos, value |-> None]
        ELSE The({
            IF s2.st = "err" THEN s2
            ELSE The({
                The({
                    IF ~value.ok
                    THEN [st |-> "err", pos |-> scan.pos,
                          err |-> invalid_newick_string(inp, scan.pos)]
                    ELSE [st |-> "ok", pos |-> scan.pos, value |-> Some(value.v)]
                    : value \in {parse_f64(scan.str)} })
                : scan \in {branch_length_scan(inp, s2.pos, <<>>)} })
            : s2 \in {skip_comment_and_whitespace(inp, s1.pos + 1)} })
        : s1 \in {skip_comment_and_whitespace(inp, pos)} })

\* One "key=value" pair per round; the pairs themselves go to the builder's
\* add_annotation and leave the arena untouched.
RECURSIVE annotation_pairs(_, _)
annotation_pairs(inp, pos) ==
    The({
        IF key.label = <<>>
        THEN [st |-> "err", pos |-> key.pos, err |-> invalid_newick_string(inp, key.pos)]
        ELSE The({
            IF value_str.label = <<>>
            THEN [st |-> "err", pos |-> value_str.pos,
                  err |-> invalid_newick_string(inp, value_str.pos)]
            ELSE IF peek_is(inp, value_str.pos, ",")
            THEN annotation_pairs(inp, value_str.pos + 1)
            ELSE IF ~peek_is(inp, value_str.pos, "]")
            THEN [st |-> "err", pos |-> value_str.pos,
                  err |-> invalid_newick_string(inp, value_str.pos)]
            ELSE [st |-> "ok", pos |-> value_str.pos + 1]
            : value_str \in {parse_unquoted_label(inp, next_byte(inp, key.pos), {",", "]"})} })
        : key \in {parse_unquoted_label(inp, pos, {"="})} })

parse_annotations(inp, pos) ==
    IF ~peek_is_sequence(inp, pos, <<"[", "&">>) THEN [st |-> "ok", pos |-> pos]
    ELSE annotation_pairs(inp, pos + 2)

\* annotations (when configured), then the optional branch length
annotations_and_branch_length(np, inp, pos) ==
    The({
        IF a.st = "err" THEN a ELSE parse_branch_length(inp, a.pos)
        : a \in {IF np.parse_annotations THEN parse_annotations(inp, pos)
                 ELSE [st |-> "ok", pos |-> pos]} })

parse_leaf(np, inp, pos) ==
    The({ The({
        IF res.st = "panic" THEN Abort([np EXCEPT !.resolver = res.resolver], label.pos)
        ELSE IF res.st = "err"
        THEN Fail([np EXCEPT !.resolver = res.resolver], label.pos,
                  from_parser("UnresolvedLabel", inp, label.pos))
        ELSE The({
            IF bl.st = "err" THEN Fail([np EXCEPT !.resolver = res.resolver], bl.pos, bl.err)
            ELSE The({
                IF leaf.st = "panic"
                THEN Abort([np EXCEPT !.resolver = res.resolver,
                                      !.num_leaves = IF np.know_num_leaves THEN @ ELSE @ + 1,
                                      !.tree_builder = leaf.builder], bl.pos)
                ELSE [st |-> "ok", pos |-> bl.pos, idx |-> leaf.idx,
                      np |-> [np EXCEPT !.resolver = res.resolver,
                                        !.num_leaves = IF np.know_num_leaves THEN @ ELSE @ + 1,
                                        !.tree_builder = leaf.builder]]
                : leaf \in {add_leaf(np.tree_builder, bl.value, res.ref)} })
            : bl \in {annotations_and_branch_length(np, inp, label.pos)} })
        : res \in {resolve_label(np.resolver, label.label)} })
        : label \in {parse_label(inp, pos, NEWICK_LABEL_DELIMITERS)} })

RECURSIVE parse_vertex(_, _, _)
RECURSIVE parse_internal_vertex(_, _, _)
RECURSIVE parse_children(_, _, _)

parse_vertex(np, inp, pos) ==
    The({
        IF s.st = "err" THEN Fail(np, s.pos, s.err)
        ELSE IF peek_is(inp, s.pos, "(") THEN parse_internal_vertex(np, inp, s.pos)
        ELSE parse_leaf(np, inp, s.pos)
        : s \in {skip_comment_and_whitespace(inp, pos)} })

parse_internal_vertex(np, inp, pos) ==
    The({
        IF ch.st # "ok" THEN ch
        ELSE The({
            IF bl.st = "err" THEN Fail(ch.np, bl.pos, bl.err)
            ELSE The({
                IF v.st = "panic"
                THEN Abort([ch.np EXCEPT !.tree_builder = v.builder], bl.pos)
                ELSE [st |-> "ok", pos |-> bl.pos, idx |-> v.idx,
                      np |-> [ch.np EXCEPT !.tree_builder = v.builder]]
                : v \in {add_internal(ch.np.tree_builder, <<ch.left, ch.right>>, bl.value)} })
            : bl \in {annotations_and_branch_length(ch.np, inp, ch.pos)} })
        : ch \in {parse_children(np, inp, pos)} })

parse_children(np, inp, pos) ==
    IF ~peek_is(inp, pos, "(") THEN Fail(np, pos, invalid_newick_string(inp, pos))
    ELSE The({
        IF left.st # "ok" THEN left
        ELSE The({
            IF s1.st = "err" THEN Fail(left.np, s1.pos, s1.err)
            ELSE IF ~peek_is(inp, s1.pos, ",")
            THEN Fail(left.np, s1.pos, invalid_newick_string(inp, s1.pos))
            ELSE The({
                IF right.st # "ok" THEN right
                ELSE The({
                    IF s2.st = "err" THEN Fail(right.np, s2.pos, s2.err)
                    ELSE IF ~peek_is(inp, s2.pos, ")")
                    THEN Fail(right.np, s2.pos, invalid_newick_string(inp, s2.pos))
                    ELSE [st |-> "ok", pos |-> s2.pos + 1, np |-> right.np,
                          left |-> left.idx, right |-> right.idx]
                    : s2 \in {skip_comment_and_whitespace(inp, right.pos)} })
                : right \in {parse_vertex(left.np, inp, s1.pos + 1)} })
            : s1 \in {skip_comment_and_whitespace(inp, left.pos)} })
        : left \in {parse_vertex(np, inp, pos + 1)} })

parse_root(np, inp, pos) ==
    The({
        IF s.st = "err" THEN Fail(np, s.pos, s.err)
        ELSE The({
            IF ch.st # "ok" THEN ch
            ELSE The({
                IF bl.st = "err" THEN Fail(ch.np, bl.pos, bl.err)
                ELSE The({
                    IF s2.st = "err" THEN Fail(ch.np, s2.pos, s2.err)
                    ELSE IF ~peek_is(inp, s2.pos, ";")
                    THEN Fail(ch.np, s2.pos, invalid_newick_string(inp, s2.pos))
                    ELSE The({
                        IF root.st = "panic"
                        THEN Abort([ch.np EXCEPT !.tree_builder = root.builder], s2.pos + 1)
                        ELSE [st |-> "ok", pos |-> s2.pos + 1,
                              np |-> [ch.np EXCEPT !.tree_builder = root.builder]]
                        : root \in {add_root(ch.np.tree_builder, <<ch.left, ch.right>>,
                                             bl.value)} })
                    : s2 \in {skip_comment_and_whitespace(inp, bl.pos)} })
                : bl \in {annotations_and_branch_length(ch.np, inp, ch.pos)} })
            : ch \in {parse_children(np, inp, s.pos)} })
        : s \in {skip_comment_and_whitespace(inp, pos)} })

\* tree_name is an Option<String>.
parse_str_and_name(np, inp, pos, tree_name) ==
    The({
        IF init.st = "panic" THEN Abort(np, pos)
        ELSE The({
            IF root.st # "ok" THEN root
            ELSE The({
                IF ~done.tree.some THEN Abort(root.np, root.pos)
                ELSE [st |-> "ok", pos |-> root.pos, tree |-> done.tree.v,
                      np |-> [root.np EXCEPT !.know_num_leaves = TRUE,
                                             !.tree_builder = done.builder]]
                : done \in {finish_tree(root.np.tree_builder)} })
            : root \in {parse_root(
                  [np EXCEPT !.tree_builder = IF tree_name.some
                                              THEN set_name(init.builder, tree_name.v)
                                              ELSE init.builder,
                             !.num_leaves = IF np.know_num_leaves THEN @ ELSE 0],
                  inp, pos)} })
        : init \in {init_next(np.tree_builder, np.num_leaves)} })

parse_str(np, inp, pos) == parse_str_and_name(np, inp, pos, None)

\* NewickParser::parse_all: trees until EOF, the first error ends the call.
RECURSIVE parse_all_loop(_, _, _, _)
parse_all_loop(np, inp, pos, trees) ==
    The({
        IF s.st = "err" THEN Fail(np, s.pos, s.err)
        ELSE IF is_eof(inp, s.pos)
        THEN [st |-> "ok", pos |-> s.pos, np |-> np, trees |-> trees]
        ELSE The({
            IF t.st # "ok" THEN t
            ELSE parse_all_loop(t.np, inp, t.pos, Append(trees, t.tree))
            : t \in {parse_str(np, inp, s.pos)} })
        : s \in {skip_comment_and_whitespace(inp, pos)} })

parse_all(np, inp) == parse_all_loop(np, inp, 0, <<>>)

\* NewickParser::into_iter over a byte parser at the start of its input
into_iter(np) == [parser |-> np, pos |-> 0, done |-> FALSE]

\* NewickIterator::next.  item is the Option<Result<Tree, ParsingError>>
\* returned; st = "panic" when the call aborts instead of returning.
NewickIterator_next(it, inp) ==
    IF it.done THEN [st |-> "ok", it |-> it, item |-> None]
    ELSE The({
        IF t.st = "panic"
        THEN [st |-> "panic", it |-> [it EXCEPT !.parser = t.np, !.pos = t.pos],
              item |-> None]
        ELSE IF t.st = "err"
        THEN [st |-> "ok",
              it |-> [parser |-> t.np, pos |-> t.pos, done |-> TRUE],
              item |-> Some([st |-> "err", err |-> t.err])]
        ELSE The({
            IF s.st = "err"
            THEN [st |-> "ok",
                  it |-> [parser |-> t.np, pos |-> s.pos, done |-> TRUE],
                  item |-> Some([st |-> "err", err |-> s.err])]
            ELSE [st |-> "ok",
                  it |-> [parser |-> t.np, pos |-> s.pos, done |-> is_eof(inp, s.pos)],
                  item |-> Some([st |-> "ok", tree |-> t.tree])]
            : s \in {skip_comment_and_whitespace(inp, t.pos)} })
        : t \in {parse_str(it.parser, inp, it.pos)} })

(***************************************************************************)
(* NEXUS parser (NexusParserInner)                                         *)
(* p is the parser object: the bytes inp and the byte parser's position    *)
(* pos, mode, newick_parser, skip_first, burnin, num_leaves,               *)
(* num_total_trees, num_trees, start_tree_pos, tree_pos.  Every operation  *)
(* returns the object as the call left it.                                 *)
(***************************************************************************)
Eager(trees) == [kind |-> "Eager", trees |-> trees]
Lazy(start_byte_pos) == [kind |-> "Lazy", start_byte_pos |-> start_byte_pos]

\* Burnin::Count(n); Burnin::Percentage(p) with p = num / den, a fraction
\* whose product with a tree count is exact in f64.
Count(n) == [kind |-> "Count", n |-> n]
Percentage(num, den) == [kind |-> "Percentage", num |-> num, den |-> den]

get_count(burnin, num_total_trees) ==
    IF burnin.kind = "Count" THEN burnin.n
    ELSE (num_total_trees * burnin.num) \div burnin.den

\* Percentage(p): p >= 0.05, i.e. 20 * num >= den
significant(burnin) ==
    IF burnin.kind = "Count" THEN burnin.n >= SIGNIFICANT_BURNIN_THRESHOLD
    ELSE 20 * burnin.num >= burnin.den

at(p, pos) == [p EXCEPT !.pos = pos]

\* return Err(ParsingError::<kind>(&mut self.byte_parser)) with the cursor at pos
NxFail(p, pos, kind) ==
    [st |-> "err", p |-> at(p, pos), err |-> from_parser(kind, p.inp, pos)]
\* an error raised by the byte parser or the Newick parser, passed on by `?`
NxErr(p, pos, err) == [st |-> "err", p |-> at(p, pos), err |-> err]
NxPanic(p, pos) == [st |-> "panic", p |-> at(p, pos)]
NxHang(p, pos) == [st |-> "hang", p |-> at(p, pos)]
NxOk(p, pos) == [st |-> "ok", p |-> at(p, pos)]

parse_nexus_header(p) ==
    The({
        IF s.st = "err" THEN NxErr(p, s.pos, s.err)
        ELSE IF ~peek_is_sequence(p.inp, s.pos, NEXUS_HEADER)
        THEN NxFail(p, s.pos, "MissingNexusHeader")
        ELSE NxOk(p, s.pos + Len(NEXUS_HEADER))
        : s \in {skip_comment_and_whitespace(p.inp, p.pos)} })

ascii_lowercase(name) == [i \in 1..Len(name) |-> to_ascii_lowercase(name[i])]

from_name(name) ==
    The({
        CASE l = <<"t","a","x","a">> -> "Taxa"
          [] l = <<"t","r","e","e","s">> -> "Trees"
          [] l = <<"d","a","t","a">> -> "Data"
          [] l = <<"c","h","a","r","a","c","t","e","r","s">> -> "Characters"
          [] l = <<"d","i","s","t","a","n","c","e","s">> -> "Distances"
          [] l = <<"s","e","t","s">> -> "Sets"
          [] l = <<"a","s","s","u","m","p","t","i","o","n","s">> -> "Assumptions"
          [] OTHER -> "UnknownBlock"
        : l \in {ascii_lowercase(name)} })

detect_next_block(p) ==
    The({
        IF s1.st = "err" THEN NxErr(p, s1.pos, s1.err)
        ELSE IF ~peek_is_sequence(p.inp, s1.pos, BLOCK_BEGIN)
        THEN NxFail(p, s1.pos, "InvalidFormatting")
        ELSE The({
            IF s2.st = "err" THEN NxErr(p, s2.pos, s2.err)
            ELSE The({
                [st |-> "ok", p |-> at(p, next_byte(p.inp, block_name.pos)),
                 block |-> from_name(block_name.label)]
                : block_name \in {parse_unquoted_label(p.inp, s2.pos, {";"})} })
            : s2 \in {skip_comment_and_whitespace(p.inp, s1.pos + Len(BLOCK_BEGIN))} })
        : s1 \in {skip_comment_and_whitespace(p.inp, p.pos)} })

skip_to_block_end(p) ==
    The({
        IF ~r.found THEN NxFail(p, r.pos, "UnexpectedEOF") ELSE NxOk(p, r.pos)
        : r \in {consume_until_sequence(p.inp, p.pos, BLOCK_END, "Inclusive")} })

RECURSIVE skip_until_block(_, _)
skip_until_block(p, target) ==
    IF is_eof(p.inp, p.pos) THEN NxFail(p, p.pos, "UnexpectedEOF")
    ELSE The({
        IF d.st # "ok" THEN d
        ELSE IF d.block = target THEN NxOk(d.p, d.p.pos)
        ELSE The({
            IF e.st # "ok" THEN e ELSE skip_until_block(e.p, target)
            : e \in {skip_to_block_end(d.p)} })
        : d \in {detect_next_block(p)} })

parse_taxa_block_ntax(p) ==
    The({
        IF s.st = "err" THEN NxErr(p, s.pos, s.err)
        ELSE IF ~peek_is_sequence(p.inp, s.pos, DIMENSIONS)
        THEN NxFail(p, s.pos, "InvalidTaxaBlock")
        ELSE The({
            IF ~peek_is_sequence(p.inp, w1, NTAX) THEN NxFail(p, w1, "InvalidTaxaBlock")
            ELSE The({
                IF ~peek_is(p.inp, w2, "=") THEN NxFail(p, w2, "InvalidTaxaBlock")
                ELSE The({ The({
                    IF ~ntax.ok THEN NxFail(p, ntax_str.pos, "InvalidTaxaBlock")
                    ELSE NxOk([p EXCEPT !.num_leaves = ntax.v],
                              next_byte(p.inp, ntax_str.pos))
                    : ntax \in {parse_usize(ntax_str.label)} })
                    : ntax_str \in {parse_unquoted_label(
                                        p.inp, skip_whitespace(p.inp, w2 + 1), {";"})} })
                : w2 \in {skip_whitespace(p.inp, w1 + Len(NTAX))} })
            : w1 \in {skip_whitespace(p.inp, s.pos + Len(DIMENSIONS))} })
        : s \in {skip_comment_and_whitespace(p.inp, p.pos)} })

\* The "read labels until semicolon" loop.  A round that reads an empty
\* unquoted label (the cursor is at ',' or at the end of the input) leaves the
\* cursor, the storage and the count as they were, so the loop never ends.
RECURSIVE taxa_labels_loop(_, _, _, _)
taxa_labels_loop(p, pos, label_storage, count) ==
    The({
        IF s.st = "err" THEN NxErr(p, s.pos, s.err)
        ELSE IF peek(p.inp, s.pos) = ";"
        THEN [st |-> "ok", p |-> at(p, s.pos + 1), storage |-> label_storage,
              count |-> count]
        ELSE The({
            IF label.label = <<>>
            THEN IF label.pos = s.pos THEN NxHang(p, s.pos)
                 ELSE taxa_labels_loop(p, label.pos, label_storage, count)
            ELSE The({
                IF stored.st = "panic" THEN NxPanic(p, label.pos)
                ELSE taxa_labels_loop(p, label.pos, stored.storage, count + 1)
                : stored \in {store_and_ref(label_storage, label.label)} })
            : label \in {parse_label(p.inp, s.pos, NEXUS_LABEL_DELIMITERS)} })
        : s \in {skip_comment_and_whitespace(p.inp, pos)} })

parse_taxa_block_labels(p) ==
    The({
        IF s.st = "err" THEN NxErr(p, s.pos, s.err)
        ELSE IF ~peek_is_sequence(p.inp, s.pos, TAXLABELS)
        THEN NxFail(p, s.pos, "InvalidTaxaBlock")
        ELSE The({
            IF r.st # "ok" THEN r
            ELSE IF r.count # p.num_leaves THEN NxFail(p, r.p.pos, "InvalidTaxaBlock")
            ELSE r
            : r \in {taxa_labels_loop(
                         p, s.pos + Len(TAXLABELS),
                         with_capacity(p.newick_parser.tree_builder.kind, p.num_leaves),
                         0)} })
        : s \in {skip_comment_and_whitespace(p.inp, p.pos)} })

parse_taxa_block(p) ==
    The({
        IF n.st # "ok" THEN n
        ELSE The({
            IF l.st # "ok" THEN l
            ELSE The({
                IF e.st # "ok" THEN e
                ELSE [st |-> "ok", p |-> e.p, storage |-> l.storage]
                : e \in {skip_to_block_end(l.p)} })
            : l \in {parse_taxa_block_labels(n.p)} })
        : n \in {parse_taxa_block_ntax(p)} })

map_insert(map, key, value) ==
    [k \in DOMAIN map \cup {key} |-> IF k = key THEN value ELSE map[k]]

RECURSIVE translate_pairs_loop(_, _, _)
translate_pairs_loop(p, pos, map) ==
    The({
        IF s.st = "err" THEN NxErr(p, s.pos, s.err)
        ELSE The({
            IF ~peek_is(p.inp, key.pos, " ") THEN NxFail(p, key.pos, "InvalidTreesBlock")
            ELSE The({ The({
                IF peek_is(p.inp, w, ",")
                THEN translate_pairs_loop(p, w + 1, map_insert(map, key.label, label.label))
                ELSE IF peek_is(p.inp, w, ";")
                THEN [st |-> "ok", p |-> at(p, w + 1),
                      map |-> map_insert(map, key.label, label.label)]
                ELSE IF is_eof(p.inp, w) THEN NxPanic(p, w)
                ELSE NxFail(p, w, "InvalidTreesBlock")
                : w \in {skip_whitespace(p.inp, label.pos)} })
                : label \in {parse_label(p.inp, key.pos + 1, NEXUS_LABEL_DELIMITERS)} })
            : key \in {parse_label(p.inp, s.pos, NEXUS_LABEL_DELIMITERS)} })
        : s \in {skip_comment_and_whitespace(p.inp, pos)} })

\* map is an Option<HashMap<String, String>>
parse_tree_block_translate(p) ==
    The({
        IF s.st = "err" THEN NxErr(p, s.pos, s.err)
        ELSE IF ~peek_is_sequence(p.inp, s.pos, TRANSLATE)
        THEN IF peek_is_sequence(p.inp, s.pos, TREE)
             THEN [st |-> "ok", p |-> at(p, s.pos), map |-> None]
             ELSE NxFail(p, s.pos, "InvalidTaxaBlock")
        ELSE The({
            IF r.st # "ok" THEN r
            ELSE IF Cardinality(DOMAIN r.map) # p.num_leaves THEN NxPanic(r.p, r.p.pos)
            ELSE [st |-> "ok", p |-> r.p, map |-> Some(r.map)]
            : r \in {translate_pairs_loop(p, s.pos + Len(TRANSLATE), EmptyMap)} })
        : s \in {skip_comment_and_whitespace(p.inp, p.pos)} })

choose_resolver(p, label_storage, map) ==
    IF ~map.some
    THEN [st |-> "ok", p |-> p, resolver |-> new_verbatim_labels_resolver(label_storage)]
    ELSE IF ~(/\ Cardinality(DOMAIN map.v) = num_labels(label_storage)
              /\ \A key \in DOMAIN map.v : check_and_ref(label_storage, map.v[key]).some)
    THEN NxFail(p, p.pos, "InvalidTranslateCommand")
    ELSE The({
        IF made.st = "panic" THEN NxPanic(p, p.pos)
        ELSE [st |-> "ok", p |-> p, resolver |-> made.resolver]
        : made \in {IF \A key \in DOMAIN map.v : parse_usize(key).ok
                    THEN new_nexus_integer_labels_resolver(map.v, label_storage)
                    ELSE new_nexus_labels_resolver(map.v, label_storage)} })

\* One TREE command from the keyword on: "tree" name "=" [comment] newick.
\* The body shared by parse_single_tree and the loop of parse_tree_block_trees.
parse_tree_command(p, pos) ==
    IF ~peek_is_sequence(p.inp, pos, TREE) THEN NxFail(p, pos, "InvalidTreesBlock")
    ELSE The({ The({
        IF ~peek_is(p.inp, w, "=") THEN NxFail(p, w, "InvalidTreesBlock")
        ELSE The({
            IF s.st = "err" THEN NxErr(p, s.pos, s.err)
            ELSE The({
                IF t.st = "err" THEN NxErr([p EXCEPT !.newick_parser = t.np], t.pos, t.err)
                ELSE IF t.st = "panic" THEN NxPanic([p EXCEPT !.newick_parser = t.np], t.pos)
                ELSE [st |-> "ok", tree |-> t.tree,
                      p |-> at([p EXCEPT !.newick_parser = t.np], t.pos)]
                : t \in {parse_str_and_name(p.newick_parser, p.inp, s.pos,
                                            Some(name.label))} })
            : s \in {skip_comment_and_whitespace(p.inp, w + 1)} })
        : w \in {skip_whitespace(p.inp, name.pos)} })
        : name \in {parse_label(p.inp, pos + Len(TREE), NEXUS_LABEL_DELIMITERS)} })

RECURSIVE parse_tree_block_trees(_, _)
parse_tree_block_trees(p, trees) ==
    The({
        IF s.st = "err" THEN NxErr(p, s.pos, s.err)
        ELSE IF peek_is_sequence(p.inp, s.pos, BLOCK_END)
        THEN [st |-> "ok", p |-> at(p, s.pos), trees |-> trees]
        ELSE The({
            IF t.st # "ok" THEN t
            ELSE parse_tree_block_trees(t.p, Append(trees, t.tree))
            : t \in {parse_tree_command(p, s.pos)} })
        : s \in {skip_comment_and_whitespace(p.inp, p.pos)} })

parse_single_tree(p) ==
    The({
        IF s.st = "err" THEN NxErr(p, s.pos, s.err)
        ELSE IF peek_is_sequence(p.inp, s.pos, BLOCK_END)
        THEN [st |-> "ok", p |-> at(p, s.pos), tree |-> None]
        ELSE The({
            IF t.st # "ok" THEN t
            ELSE [st |-> "ok", p |-> t.p, tree |-> Some(t.tree)]
            : t \in {parse_tree_command(p, s.pos)} })
        : s \in {skip_comment_and_whitespace(p.inp, p.pos)} })

skip_tree(p) ==
    The({
        IF s.st = "err" THEN NxErr(p, s.pos, s.err)
        ELSE IF peek_is_sequence(p.inp, s.pos, BLOCK_END)
        THEN [st |-> "ok", p |-> at(p, s.pos), skipped |-> FALSE]
        ELSE IF ~peek_is_sequence(p.inp, s.pos, TREE)
        THEN NxFail(p, s.pos, "InvalidTreesBlock")
        ELSE The({
            IF ~eq.found THEN NxFail(p, eq.pos, "InvalidTreesBlock")
            ELSE The({
                IF s2.st = "err" THEN NxErr(p, s2.pos, s2.err)
                ELSE The({
                    IF ~semi.found THEN NxFail(p, semi.pos, "UnexpectedEOF")
                    ELSE [st |-> "ok", p |-> at(p, semi.pos), skipped |-> TRUE]
                    : semi \in {consume_until(p.inp, s2.pos, ";", "Inclusive")} })
                : s2 \in {skip_comment_and_whitespace(p.inp, next_byte(p.inp, eq.pos))} })
            : eq \in {consume_until(p.inp, s.pos + Len(TREE), "=", "Exclusive")} })
        : s \in {skip_comment_and_whitespace(p.inp, p.pos)} })

RECURSIVE count_trees_loop(_, _)
count_trees_loop(p, count) ==
    The({
        IF r.st # "ok" THEN r
        ELSE IF r.skipped THEN count_trees_loop(r.p, count + 1)
        ELSE [st |-> "ok", p |-> r.p, count |-> count]
        : r \in {skip_tree(p)} })

count_trees(p) ==
    The({
        IF r.st # "ok" THEN r
        ELSE [st |-> "ok", p |-> at(r.p, p.pos), count |-> r.count]
        : r \in {count_trees_loop(p, 0)} })

saturating_sub(a, b) == IF a >= b THEN a - b ELSE 0

configure_tree_counts(p, num_total_trees) ==
    LET first == IF p.skip_first /\ num_total_trees > 0 THEN 1 ELSE 0
        skip_count == first + get_count(p.burnin, num_total_trees - first)
    IN  [p EXCEPT !.num_total_trees = num_total_trees,
                  !.num_trees = saturating_sub(num_total_trees, skip_count),
                  !.start_tree_pos = skip_count,
                  !.tree_pos = skip_count]

\* for _ in 0..self.start_tree_pos { self.skip_tree()?; }
RECURSIVE skip_trees(_, _)
skip_trees(p, n) ==
    IF n = 0 THEN NxOk(p, p.pos)
    ELSE IF n = 1
    THEN The({
        IF r.st # "ok" THEN r ELSE NxOk(r.p, r.p.pos)
        : r \in {skip_tree(p)} })
    \* n iterations are the first n \div 2 followed by the others
    ELSE The({
        IF r.st # "ok" THEN r ELSE skip_trees(r.p, n - (n \div 2))
        : r \in {skip_trees(p, n \div 2)} })

\* init, scenarios 1 and 2: count, configure, skip the unwanted prefix, then
\* parse the rest (eager) or remember where it starts (lazy).
init_two_pass(p) ==
    The({
        IF c.st # "ok" THEN c
        ELSE The({ The({
            IF skipped.st # "ok" THEN skipped
            ELSE IF p.mode.kind = "Eager"
            THEN The({
                IF parsed.st # "ok" THEN parsed
                ELSE [st |-> "ok", p |-> [parsed.p EXCEPT !.mode = Eager(parsed.trees)]]
                : parsed \in {parse_tree_block_trees(skipped.p, <<>>)} })
            ELSE [st |-> "ok", p |-> [skipped.p EXCEPT !.mode = Lazy(skipped.p.pos)]]
            : skipped \in {skip_trees(configured, configured.start_tree_pos)} })
            : configured \in {configure_tree_counts(c.p, c.count)} })
        : c \in {count_trees(p)} })

\* init, scenario 3: parse every tree, then drop the unwanted prefix.
init_one_pass(p) ==
    The({
        IF parsed.st # "ok" THEN parsed
        ELSE The({
            [st |-> "ok",
             p |-> [configured EXCEPT !.mode = Eager(
                       IF configured.start_tree_pos = 0 THEN parsed.trees
                       ELSE SubSeq(parsed.trees, configured.start_tree_pos + 1,
                                   Len(parsed.trees)))]]
            : configured \in {configure_tree_counts(parsed.p, Len(parsed.trees))} })
        : parsed \in {parse_tree_block_trees(p, <<>>)} })

init(p) ==
    The({
      IF header.st # "ok" THEN header
      ELSE The({
        IF to_taxa.st # "ok" THEN to_taxa
        ELSE The({
          IF taxa.st # "ok" THEN taxa
          ELSE The({
            IF to_trees.st # "ok" THEN to_trees
            ELSE The({
              IF translate.st # "ok" THEN translate
              ELSE The({
                IF chosen.st # "ok" THEN chosen
                ELSE The({ The({
                    IF s.st = "err" THEN NxErr(p1, s.pos, s.err)
                    ELSE IF p.mode.kind # "Eager" \/ significant(p.burnin)
                    THEN init_two_pass(at(p1, s.pos))
                    ELSE init_one_pass(at(p1, s.pos))
                    : s \in {skip_comment_and_whitespace(p1.inp, p1.pos)} })
                    : p1 \in {[chosen.p EXCEPT !.newick_parser =
                                 set_resolver(set_num_leaves(@, chosen.p.num_leaves),
                                              chosen.resolver)]} })
                : chosen \in {choose_resolver(translate.p, taxa.storage, translate.map)} })
              : translate \in {parse_tree_block_translate(to_trees.p)} })
            : to_trees \in {skip_until_block(taxa.p, "Trees")} })
          : taxa \in {parse_taxa_block(to_taxa.p)} })
        : to_taxa \in {skip_until_block(header.p, "Taxa")} })
      : header \in {parse_nexus_header(p)} })

\* reset that puts the logical cursor back and leaves the byte cursor alone
reset_tree_pos_only(p) == [p EXCEPT !.tree_pos = p.start_tree_pos]

reset(p) ==
    IF p.mode.kind = "Lazy"
    THEN [p EXCEPT !.tree_pos = p.start_tree_pos, !.pos = p.mode.start_byte_pos]
    ELSE [p EXCEPT !.tree_pos = p.start_tree_pos]

next_tree_ref(p) ==
    IF p.mode.kind = "Eager" /\ p.tree_pos < p.start_tree_pos + p.num_trees
    THEN IF p.tree_pos - p.start_tree_pos + 1 \in DOMAIN p.mode.trees
         THEN [st |-> "ok", p |-> [p EXCEPT !.tree_pos = p.tree_pos + 1],
               tree |-> Some(p.mode.trees[p.tree_pos - p.start_tree_pos + 1])]
         ELSE [st |-> "panic", p |-> p]
    ELSE [st |-> "ok", p |-> p, tree |-> None]

next_tree(p) ==
    IF p.mode.kind = "Eager" THEN [st |-> "ok", p |-> p, tree |-> None]
    ELSE IF p.tree_pos >= p.start_tree_pos + p.num_trees
    THEN [st |-> "ok", p |-> p, tree |-> None]
    ELSE The({
        IF t.st # "ok" THEN t
        ELSE IF ~t.tree.some THEN NxFail(t.p, t.p.pos, "UnexpectedEOF")
        ELSE [st |-> "ok", p |-> [t.p EXCEPT !.tree_pos = t.p.tree_pos + 1],
              tree |-> t.tree]
        : t \in {parse_single_tree(p)} })

into_label_storage(p) == p.newick_parser.resolver.storage

RECURSIVE into_results_loop(_, _)
into_results_loop(p, all_trees) ==
    The({
        IF t.st # "ok" THEN t
        ELSE IF t.tree.some THEN into_results_loop(t.p, Append(all_trees, t.tree.v))
        ELSE [st |-> "ok", p |-> t.p, trees |-> all_trees,
              storage |-> into_label_storage(t.p)]
        : t \in {next_tree(p)} })

into_results(p) ==
    IF p.mode.kind = "Eager"
    THEN [st |-> "ok", p |-> p, trees |-> p.mode.trees, storage |-> into_label_storage(p)]
    ELSE into_results_loop(reset(p), <<>>)

\* NexusParserBuilder: for_file defaults, then the with_* setters of cfg, then
\* the parser object build() hands to init.
NexusParserInner(inp, cfg) ==
    [inp |-> inp, pos |-> 0,
     mode |-> IF cfg.lazy THEN Lazy(0) ELSE Eager(<<>>),
     newick_parser |->
        [NewickParser_new(cfg.tree_builder)
         EXCEPT !.parse_annotations = cfg.parse_annotations],
     skip_first |-> cfg.skip_first, burnin |-> cfg.burnin,
     num_leaves |-> 0, num_total_trees |-> 0, num_trees |-> 0,
     start_tree_pos |-> 0, tree_pos |-> 0]

build(inp, cfg) == init(NexusParserInner(inp, cfg))

(***************************************************************************)
(* Label escaping and the Newick writer                                    *)
(***************************************************************************)
ESCAPE_BYTES == {",", ";", "\t", "\n", "\r", "(", ")", ":", "[", "]", "'"}

is_single_quoted(label) ==
    Len(label) >= 2 /\ label[1] = "'" /\ label[Len(label)] = "'"

\* the scan of is_escaped over the inside of a quoted label
RECURSIVE quotes_escaped(_, _, _)
quotes_escaped(inner, i, prev) ==
    IF i > Len(inner) THEN TRUE
    ELSE IF prev = "'"
         THEN IF inner[i] # "'" THEN FALSE ELSE quotes_escaped(inner, i + 1, " ")
         ELSE quotes_escaped(inner, i + 1, inner[i])

is_escaped(label) ==
    IF is_single_quoted(label)
    THEN quotes_escaped(SubSeq(label, 2, Len(label) - 1), 1, " ")
    ELSE \A i \in 1..Len(label) : label[i] \notin ESCAPE_BYTES \cup {" "}

\* the repair loop of escape_label over the inside of a quoted label
RECURSIVE fix_quotes(_, _, _)
fix_quotes(inner, i, fixed) ==
    IF i > Len(inner) THEN fixed
    ELSE IF inner[i] = "'"
         THEN IF i + 1 <= Len(inner) /\ inner[i + 1] = "'"
              THEN fix_quotes(inner, i + 2, fixed \o <<"'", "'">>)
              ELSE fix_quotes(inner, i + 1, fixed \o <<"'", "'">>)
         ELSE fix_quotes(inner, i + 1, Append(fixed, inner[i]))

\* str::replace of one byte by a byte string
RECURSIVE replace(_, _, _)
replace(s, from, to) ==
    IF s = <<>> THEN <<>>
    ELSE (IF s[1] = from THEN to ELSE <<s[1]>>) \o replace(Tail(s), from, to)

escape_label(label) ==
    IF is_escaped(label) THEN label
    ELSE IF is_single_quoted(label)
    THEN <<"'">> \o fix_quotes(SubSeq(label, 2, Len(label) - 1), 1, <<>>) \o <<"'">>
    ELSE IF \E i \in 1..Len(label) : label[i] \in ESCAPE_BYTES
    THEN <<"'">> \o replace(label, "'", <<"'", "'">>) \o <<"'">>
    ELSE replace(label, " ", <<"_">>)

\* str::replace of a two-byte pattern, matches taken left to right
RECURSIVE replace_pair(_, _, _)
replace_pair(s, from, to) ==
    IF Len(s) < 2 THEN s
    ELSE IF SubSeq(s, 1, 2) = from THEN to \o replace_pair(SubSeq(s, 3, Len(s)), from, to)
    ELSE <<s[1]>> \o replace_pair(Tail(s), from, to)

unescape_label(label) ==
    replace(IF is_single_quoted(label)
            THEN replace_pair(SubSeq(label, 2, Len(label) - 1), <<"'", "'">>, <<"'">>)
            ELSE label,
            "_", <<" ">>)

RECURSIVE usize_to_string(_)
usize_to_string(n) ==
    IF n < 10 THEN <<Digits[n + 1]>>
    ELSE Append(usize_to_string(n \div 10), Digits[(n % 10) + 1])

zeros(k) == [i \in 1..k |-> "0"]

\* Display of an f64: plain decimal notation, no exponent, no trailing ".0"
f64_to_string(v) ==
    LET digits == usize_to_string(v.mant)
        k == 0 - v.exp
        unsigned ==
            IF v.inf THEN <<"i", "n", "f">>
            ELSE IF v.mant = 0 THEN <<"0">>
            ELSE IF v.exp >= 0 THEN digits \o zeros(v.exp)
            ELSE IF Len(digits) > k
            THEN SubSeq(digits, 1, Len(digits) - k) \o <<".">>
                 \o SubSeq(digits, Len(digits) - k + 1, Len(digits))
            ELSE <<"0", ".">> \o zeros(k - Len(digits)) \o digits
    IN  IF v.neg THEN <<"-">> \o unsigned ELSE unsigned

build_newick_branch_length(branch_length) ==
    IF branch_length.some THEN <<":">> \o f64_to_string(branch_length.v) ELSE <<>>

RECURSIVE build_newick(_, _, _, _)
build_newick(tree, index, style, leaf_label_map) ==
    LET vertex == tree.vertices[index + 1]
    IN  IF is_leaf(vertex)
        THEN (CASE style = "Label" -> escape_label(leaf_label_map.v.labels[vertex.label + 1])
                [] style = "ZeroIndexed" -> usize_to_string(vertex.label)
                [] style = "OneIndexed" -> usize_to_string(vertex.label + 1))
             \o build_newick_branch_length(vertex.branch_length)
        ELSE <<"(">> \o build_newick(tree, vertex.children[1], style, leaf_label_map)
             \o <<",">> \o build_newick(tree, vertex.children[2], style, leaf_label_map)
             \o <<")">>
             \o (IF is_root(vertex) THEN <<>>
                 ELSE build_newick_branch_length(vertex.branch_length))

\* leaf_label_map is an Option<&LeafLabelMap>
to_newick(style, tree, leaf_label_map) ==
    IF style = "Label" /\ ~leaf_label_map.some THEN <<>>
    ELSE build_newick(tree, tree.root_index, style, leaf_label_map) \o <<";">>

(***************************************************************************)
(* NEXUS files the caller parses                                           *)
(* A file is described by desc: which taxon list it declares, the Ntax     *)
(* value it writes, the kind of TRANSLATE command, the number n of TREE    *)
(* commands, and cut (the file is the first cut bytes of the text, or the  *)
(* whole text when cut is -1).                                             *)
(***************************************************************************)
MaxTrees == 3

NL == <<"\n">>
SP == <<" ">>

\* The second list has a taxon whose (quoted) name holds ';', "tree" and '='.
TaxaLists ==
    << << <<"A">>, <<"B">>, <<"C">> >>,
       << <<"A">>, <<"B">>, <<"a", ";", "t", "r", "e", "e", " ", "b", "=">> >> >>

\* keys of a table TRANSLATE: a key that is another taxon's name, a key that
\* is another taxon's position, and a plain word
TableKeys == << <<"B">>, <<"1">>, <<"c">> >>

RECURSIVE Concat(_)
Concat(seqs) == IF seqs = <<>> THEN <<>> ELSE Head(seqs) \o Concat(Tail(seqs))

\* a label as a NEXUS / Newick token: quoted when it needs to be
Token(label) ==
    IF \E i \in 1..Len(label) : label[i] \in ESCAPE_BYTES \cup {" "}
    THEN <<"'">> \o replace(label, "'", <<"'", "'">>) \o <<"'">>
    ELSE label

Tip(desc, i) ==
    CASE desc.translate = "none" -> Token(TaxaLists[desc.taxa][i])
      [] desc.translate = "stray" ->
           IF i = 3 THEN <<"Z">> ELSE Token(TaxaLists[desc.taxa][i])
      [] desc.translate = "table" -> TableKeys[i]
      [] OTHER -> usize_to_string(i)

\* the j-th tree of a file: three shapes over the three taxa, in rotation
Newick(desc, j) ==
    LET t(i) == Tip(desc, i)
    IN  CASE j % 3 = 1 ->
               <<"(", "(">> \o t(1) \o <<":", "1", ".", "0", ",">> \o t(2)
               \o <<":", "2", ")", ":", "3", ".", "0", ",">> \o t(3)
               \o <<":", "0", ".", "5", ")", ";">>
          [] j % 3 = 2 ->
               <<"(">> \o t(1) \o <<",", "(">> \o t(3) \o <<",">> \o t(2)
               \o <<")", ")", ";">>
          [] OTHER ->
               <<"[", "&", "R", "]", " ", "(", "(">> \o t(3) \o <<",">> \o t(1)
               \o <<")", ",">> \o t(2) \o <<")", ":", "0", ".", "1", ";">>

TreeCommand(desc, j) ==
    TREE \o SP \o <<"t">> \o usize_to_string(j) \o <<" ", "=", " ">>
    \o Newick(desc, j) \o NL

TaxaBlock(desc) ==
    LET taxa == TaxaLists[desc.taxa]
    IN  BLOCK_BEGIN \o SP \o <<"t", "a", "x", "a", ";">> \o NL
        \o DIMENSIONS \o SP \o NTAX \o <<"=">> \o usize_to_string(desc.ntax) \o <<";">> \o NL
        \o TAXLABELS \o Concat([i \in 1..Len(taxa) |-> SP \o Token(taxa[i])]) \o <<";">> \o NL
        \o BLOCK_END \o NL

\* "int": keys 1..n in declaration order.  The inconsistent kinds: "short"
\* leaves the last taxon out, "range" gives the last taxon the key n + 2,
\* "unknown" maps the last key to a label that is not a taxon.  "stray" is
\* a file without TRANSLATE whose trees name a tip Z that is not a taxon.
TranslateCommand(desc) ==
    LET taxa == TaxaLists[desc.taxa]
        n == Len(taxa)
        last == IF desc.translate = "short" THEN n - 1 ELSE n
        key(i) == IF desc.translate = "table" THEN TableKeys[i]
                  ELSE IF desc.translate = "range" /\ i = n THEN usize_to_string(n + 2)
                  ELSE usize_to_string(i)
        label(i) == IF desc.translate = "unknown" /\ i = n THEN <<"Z">>
                    ELSE Token(taxa[i])
        entry(i) == (IF i = 1 THEN SP ELSE <<",", " ">>) \o key(i) \o SP \o label(i)
    IN  IF desc.translate \in {"none", "stray"} THEN <<>>
        ELSE TRANSLATE \o Concat([i \in 1..last |-> entry(i)]) \o <<";">> \o NL

TreesBlock(desc) ==
    BLOCK_BEGIN \o SP \o <<"t", "r", "e", "e", "s", ";">> \o NL
    \o TranslateCommand(desc)
    \o Concat([j \in 1..desc.n |-> TreeCommand(desc, j)])
    \o BLOCK_END \o NL

FileText(desc) == NEXUS_HEADER \o NL \o TaxaBlock(desc) \o TreesBlock(desc)

File(desc) ==
    IF desc.cut < 0 THEN FileText(desc) ELSE SubSeq(FileText(desc), 1, desc.cut)

Whole == 0 - 1

\* well-formed files
ValidDescs ==
    {[taxa |-> x, ntax |-> Len(TaxaLists[x]), translate |-> tr, n |-> n, cut |-> Whole] :
        x \in DOMAIN TaxaLists, tr \in {"none", "int", "table"}, n \in 0..MaxTrees}

\* files with an inconsistent TRANSLATE command, tip label or Ntax value
InconsistentDescs ==
    {[taxa |-> 1, ntax |-> Len(TaxaLists[1]), translate |-> tr, n |-> 1, cut |-> Whole] :
        tr \in {"short", "range", "unknown", "stray"}}
    \cup
    {[taxa |-> 1, ntax |-> k, translate |-> "int", n |-> 1, cut |-> Whole] :
        k \in {Len(TaxaLists[1]) - 1, Len(TaxaLists[1]) + 1}}

\* one well-formed file, ending after each of its bytes but the last
TruncatedBase == [taxa |-> 1, ntax |-> Len(TaxaLists[1]), translate |-> "int", n |-> 1,
                  cut |-> Whole]
TruncatedDescs ==
    {[TruncatedBase EXCEPT !.cut = k] : k \in 0..(Len(FileText(TruncatedBase)) - 1)}

Burnins ==
    {Count(0), Count(1), Count(SIGNIFICANT_BURNIN_THRESHOLD),
     Percentage(1, 32), Percentage(1, 2), Percentage(3, 4)}

Cfgs ==
    [lazy : BOOLEAN, skip_first : BOOLEAN, burnin : Burnins,
     tree_builder : {"Compact", "Simple"}, parse_annotations : {FALSE}]

\* NexusParserBuilder::for_file(path) with eager() or lazy() and nothing else
DefaultCfgs ==
    [lazy : BOOLEAN, skip_first : {FALSE}, burnin : {Count(0)},
     tree_builder : {"Compact"}, parse_annotations : {FALSE}]

(***************************************************************************)
(* The caller of the NEXUS parser.  Slot i of nx is one parser of the      *)
(* caller with the file and the configuration it was built from; out[i]    *)
(* is what its calls returned.  A parser whose call panicked or hung, or   *)
(* whose build returned Err, is gone ("failed"); into_results consumes it. *)
(***************************************************************************)
MaxCalls == 5

Absent == [state |-> "absent"]
NoOutcome == [st |-> "none"]

\* a Result as the caller sees it: Err carries the ParsingError
Outcome(r) == IF r.st = "err" THEN [st |-> "err", err |-> r.err] ELSE [st |-> r.st]

\* Result<Option<Tree>, ParsingError> of a retrieval
Retrieved(r) == IF r.st = "ok" THEN [st |-> "ok", tree |-> r.tree] ELSE Outcome(r)

Slot(desc, cfg) ==
    [state |-> "new", desc |-> desc, cfg |-> cfg, p |-> NexusParserInner(File(desc), cfg)]

NoCalls ==
    [build |-> NoOutcome, results |-> NoOutcome, last |-> [op |-> "none"],
     pass |-> <<>>, ref |-> <<>>, build_pos |-> 0]

Longer(a, b) == IF Len(a) >= Len(b) THEN a ELSE b

\* let parser = NexusParserBuilder::for_file(..)....build()
Build(i) ==
    /\ nx[i].state = "new"
    /\ i = 2 => nx[1].state \in {"failed", "consumed"}
    /\ \E r \in {init(nx[i].p)} :
           /\ nx' = [nx EXCEPT ![i].state = IF r.st = "ok" THEN "built" ELSE "failed",
                               ![i].p = IF r.st = "ok" THEN r.p ELSE @]
           /\ out' = [out EXCEPT ![i].build = Outcome(r),
                                 ![i].build_pos = IF r.st = "ok" THEN r.p.pos ELSE 0]
    /\ UNCHANGED <<calls, nw, ls, rs, tb, lb, ar, debug_assertions>>

\* let (trees, labels) = parser.into_results()
IntoResults(i) ==
    /\ nx[i].state = "built"
    /\ \E r \in {into_results(nx[i].p)} :
       \* the writer takes a CompactTree and a LeafLabelMap only
       \E texts \in {IF r.st = "ok" /\ nx[i].cfg.tree_builder = "Compact"
                     THEN [k \in 1..Len(r.trees) |->
                              to_newick("Label", r.trees[k], Some(r.storage))]
                     ELSE <<>>} :
           /\ nx' = [nx EXCEPT ![i].state = IF r.st = "ok" THEN "consumed" ELSE "failed",
                               ![i].p = r.p]
           /\ out' = [out EXCEPT
                  ![i].results = IF r.st = "ok"
                                 THEN [st |-> "ok", trees |-> r.trees, newick |-> texts]
                                 ELSE Outcome(r),
                  ![i].last = [op |-> "into_results"],
                  ![i].ref = Longer(out[i].pass, out[i].ref),
                  ![i].pass = <<>>]
    /\ UNCHANGED <<calls, nw, ls, rs, tb, lb, ar, debug_assertions>>

\* a retrieval: the caller iterates until it gets Err; then it can only reset
Retrieve(i, op, r, counts) ==
    /\ nx' = [nx EXCEPT ![i].state = IF r.st \in {"ok", "err"} THEN "built" ELSE "failed",
                        ![i].p = r.p]
    /\ out' = [out EXCEPT ![i].last = [op |-> op, res |-> Retrieved(r)],
                          ![i].pass = IF counts THEN Append(@, Retrieved(r)) ELSE @]
    /\ calls' = calls + 1
    /\ UNCHANGED <<nw, ls, rs, tb, lb, ar, debug_assertions>>

PassOpen(i) ==
    /\ nx[i].state = "built"
    /\ calls < MaxCalls
    /\ \A k \in 1..Len(out[i].pass) : out[i].pass[k].st = "ok"

\* parser.next_tree()
NextTree(i) ==
    /\ PassOpen(i)
    /\ \E r \in {next_tree(nx[i].p)} :
           Retrieve(i, "next_tree", r, nx[i].p.mode.kind = "Lazy")

\* parser.next_tree_ref()
NextTreeRef(i) ==
    /\ PassOpen(i)
    /\ \E r \in {next_tree_ref(nx[i].p)} :
           Retrieve(i, "next_tree_ref", r, nx[i].p.mode.kind = "Eager")

\* parser.reset()
Reset(i) ==
    /\ nx[i].state = "built"
    /\ calls < MaxCalls
    /\ nx' = [nx EXCEPT ![i].p = reset(@)]
    /\ out' = [out EXCEPT ![i].last = [op |-> "reset"],
                          ![i].ref = Longer(out[i].pass, out[i].ref),
                          ![i].pass = <<>>]
    /\ calls' = calls + 1
    /\ UNCHANGED <<nw, ls, rs, tb, lb, ar, debug_assertions>>

(***************************************************************************)
(* Spec: a caller that parses two NEXUS files to the end, one parser       *)
(* after the other (parsers share no state).  Either the same file and     *)
(* configuration in eager and in lazy mode, or, under one configuration,   *)
(* a file with the TRANSLATE keys 1..n and the same file with the literal  *)
(* taxon names as tip tokens.                                              *)
(***************************************************************************)
Idle == [state |-> "idle"]

InMode(cfg, lazy) == [cfg EXCEPT !.lazy = lazy]

ModePairs ==
    {<<Slot(d, InMode(c, FALSE)), Slot(d, InMode(c, TRUE))>> :
        d \in ValidDescs, c \in Cfgs}
    \cup
    {<<Slot(d, InMode(c, FALSE)), Slot(d, InMode(c, TRUE))>> :
        d \in InconsistentDescs \cup TruncatedDescs, c \in DefaultCfgs}

StylePairs ==
    {<<Slot([d EXCEPT !.translate = "int"], c), Slot([d EXCEPT !.translate = "none"], c)>> :
        d \in ValidDescs, c \in Cfgs}

Init ==
    /\ \E pair \in ModePairs \cup StylePairs : nx = [i \in {1, 2} |-> pair[i]]
    /\ out = [i \in {1, 2} |-> NoCalls]
    /\ calls = 0
    /\ nw = Idle
    /\ ls = Idle
    /\ rs = Idle
    /\ tb = Idle
    /\ lb = Idle
    /\ ar = Idle
    /\ debug_assertions \in BOOLEAN

Next == \E i \in {1, 2} : Build(i) \/ IntoResults(i)

Spec == Init /\ [][Next]_vars

(***************************************************************************)
(* SpecRetrieve: a caller that builds one parser over a well-formed file   *)
(* and then retrieves trees one at a time, resets and collects the         *)
(* results, in any order, MaxCalls calls at most.                          *)
(***************************************************************************)
RetrieveDescs == {d \in ValidDescs : d.translate \in {"none", "int"}}

RetrieveCfgs ==
    [lazy : BOOLEAN, skip_first : BOOLEAN,
     burnin : {Count(0), Count(1), Percentage(1, 2)},
     tree_builder : {"Compact"}, parse_annotations : {FALSE}]

InitRetrieve ==
    /\ \E d \in RetrieveDescs, c \in RetrieveCfgs :
          nx = [i \in {1, 2} |-> IF i = 1 THEN Slot(d, c) ELSE Absent]
    /\ out = [i \in {1, 2} |-> NoCalls]
    /\ calls = 0
    /\ nw = Idle
    /\ ls = Idle
    /\ rs = Idle
    /\ tb = Idle
    /\ lb = Idle
    /\ ar = Idle
    /\ debug_assertions \in BOOLEAN

NextRetrieve ==
    Build(1) \/ NextTree(1) \/ NextTreeRef(1) \/ Reset(1) \/ IntoResults(1)

SpecRetrieve == InitRetrieve /\ [][NextRetrieve]_vars

(***************************************************************************)
(* Newick inputs the caller parses                                         *)
(* A tree text is described by its shape, the order of its tips, the       *)
(* branch length written after its first tip, and one defect of            *)
(* punctuation (or none).  A file is up to two tree texts, each followed   *)
(* by the same separator.                                                  *)
(***************************************************************************)
NewickTips == << <<"A">>, <<"B">>, <<"C">>, <<"D">> >>

TipOrders == {<<1, 2, 3>>, <<2, 1, 3>>, <<1, 3, 4>>}

Shapes == {"cherry", "left", "right"}

\* no length, two lengths BranchLength::new accepts, a negative one, one
\* beyond f64::MAX, and one that is no number
LengthTexts ==
    << <<>>, <<":", "1", ".", "5">>, <<":", "0">>, <<":", "-", "1">>,
       <<":", "1", "e", "9", "9", "9">>, <<":", "x">> >>

GoodLengths == {1, 2, 3}

Defects ==
    {"none", "no_semicolon", "no_comma", "no_close", "extra_close", "extra_open"}

Separators == {<<>>, NL, <<"[", "c", "]">>, <<"[", "c">>}

NewickText(t) ==
    LET a == NewickTips[t.tips[1]] \o LengthTexts[t.len]
        b == NewickTips[t.tips[2]]
        c == NewickTips[t.tips[3]]
        open == IF t.defect = "extra_open" THEN <<"(", "(">> ELSE <<"(">>
        comma == IF t.defect = "no_comma" THEN SP ELSE <<",">>
        close == CASE t.defect = "no_close" -> <<>>
                   [] t.defect = "extra_close" -> <<")", ")">>
                   [] OTHER -> <<")">>
        end == IF t.defect = "no_semicolon" THEN <<>> ELSE <<";">>
    IN  CASE t.shape = "cherry" -> open \o a \o comma \o b \o close \o end
          [] t.shape = "left" ->
               open \o <<"(">> \o a \o <<",">> \o b \o <<")">> \o comma \o c
               \o close \o end
          [] OTHER ->
               open \o a \o comma \o <<"(">> \o b \o <<",">> \o c \o <<")">>
               \o close \o end

TreeText(shape, tips, len, defect) ==
    [shape |-> shape, tips |-> tips, len |-> len, defect |-> defect]

NewickFileText(f) ==
    Concat([k \in 1..Len(f.trees) |-> NewickText(f.trees[k]) \o f.sep])

NewickFiles ==
    {[trees |-> <<>>, sep |-> s] : s \in Separators}
    \cup {[trees |-> <<TreeText(sh, <<1, 2, 3>>, l, d)>>, sep |-> s] :
            sh \in Shapes, l \in DOMAIN LengthTexts, d \in Defects, s \in Separators}
    \cup {[trees |-> <<TreeText(sh1, o1, 1, "none"), TreeText(sh2, o2, 1, d)>>,
           sep |-> s] :
            sh1 \in Shapes, sh2 \in Shapes, o1 \in TipOrders, o2 \in TipOrders,
            d \in {"none", "no_semicolon"}, s \in {<<>>, NL}}

WellFormedTree(t) == t.defect = "none" /\ t.len \in GoodLengths

WellFormedFile(f) ==
    /\ f.sep # <<"[", "c">>
    /\ \A k \in 1..Len(f.trees) : WellFormedTree(f.trees[k])

(***************************************************************************)
(* The caller of a Newick parser: one parser with default settings over    *)
(* one input, used for a single parse_str, for parse_all, or through the   *)
(* iterator; a returned tree may then be traversed in post-order.          *)
(***************************************************************************)
MaxItems == 4

Fresh(kind, f) ==
    [state |-> "new", kind |-> kind, file |-> f, inp |-> NewickFileText(f),
     np |-> NewickParser_new(kind), it |-> None, got |-> <<>>, visit |-> None]

\* what a parse call gave back: the trees of a success, the error of a failure
Returned(op, r) ==
    [op |-> op, st |-> r.st,
     trees |-> IF r.st # "ok" THEN <<>>
               ELSE IF op = "parse_str" THEN <<r.tree>> ELSE r.trees,
     err |-> IF r.st = "err" THEN Some(r.err) ELSE None]

AfterCall(r) == IF r.st = "panic" THEN "aborted" ELSE "done"

ParseStr ==
    /\ nw.state = "new"
    /\ \E r \in {parse_str(nw.np, nw.inp, 0)} :
          nw' = [nw EXCEPT !.state = AfterCall(r), !.np = r.np,
                           !.got = <<Returned("parse_str", r)>>]
    /\ UNCHANGED <<nx, out, calls, ls, rs, tb, lb, ar, debug_assertions>>

ParseAll ==
    /\ nw.state = "new"
    /\ \E r \in {parse_all(nw.np, nw.inp)} :
          nw' = [nw EXCEPT !.state = AfterCall(r), !.np = r.np,
                           !.got = <<Returned("parse_all", r)>>]
    /\ UNCHANGED <<nx, out, calls, ls, rs, tb, lb, ar, debug_assertions>>

IntoIter ==
    /\ nw.state = "new"
    /\ nw' = [nw EXCEPT !.state = "iter", !.it = Some(into_iter(nw.np))]
    /\ UNCHANGED <<nx, out, calls, ls, rs, tb, lb, ar, debug_assertions>>

\* the cursor, after skipping comments and whitespace, is at EOF
AtEnd(inp, pos) ==
    \E s \in {skip_comment_and_whitespace(inp, pos)} :
        s.st # "err" /\ is_eof(inp, s.pos)

IterNext ==
    /\ nw.state = "iter"
    /\ Len(nw.got) < MaxItems
    /\ \E r \in {NewickIterator_next(nw.it.v, nw.inp)} :
          nw' = [nw EXCEPT
                   !.state = IF r.st = "panic" THEN "aborted" ELSE "iter",
                   !.it = Some(r.it),
                   !.got = Append(@,
                       [op |-> "next", st |-> r.st, item |-> r.item,
                        at_end |-> AtEnd(nw.inp, nw.it.v.pos),
                        trees |-> IF r.st = "ok" /\ r.item.some /\ r.item.v.st = "ok"
                                  THEN <<r.item.v.tree>> ELSE <<>>])]
    /\ UNCHANGED <<nx, out, calls, ls, rs, tb, lb, ar, debug_assertions>>

\* the trees handed to the caller so far
Trees == Concat([k \in 1..Len(nw.got) |-> nw.got[k].trees])

PostOrder ==
    /\ nw.state \in {"done", "iter"}
    /\ ~nw.visit.some
    /\ \E k \in 1..Len(Trees) :
          \E items \in {collect(Trees[k], post_order_iter(Trees[k]), <<>>)} :
              nw' = [nw EXCEPT !.visit = Some([tree |-> Trees[k], items |-> items])]
    /\ UNCHANGED <<nx, out, calls, ls, rs, tb, lb, ar, debug_assertions>>

\* the text of a later call on the same parser: a well-formed tree
RetryText == NewickText(TreeText("cherry", <<1, 2, 3>>, 1, "none"))

\* parse_str once more on the parser whose first call returned an error,
\* with a new ByteParser over RetryText; num_leaves is the count the call
\* passes to init_next
ParseStrAgain ==
    /\ nw.state = "done"
    /\ Len(nw.got) = 1
    /\ nw.got[1].op \in {"parse_str", "parse_all"}
    /\ nw.got[1].st = "err"
    /\ \E r \in {parse_str(nw.np, RetryText, 0)} :
          nw' = [nw EXCEPT
                   !.state = AfterCall(r), !.np = r.np,
                   !.got = Append(@,
                       [op |-> "parse_str_again", st |-> r.st,
                        num_leaves |-> nw.np.num_leaves,
                        trees |-> IF r.st = "ok" THEN <<r.tree>> ELSE <<>>,
                        err |-> IF r.st = "err" THEN Some(r.err) ELSE None])]
    /\ UNCHANGED <<nx, out, calls, ls, rs, tb, lb, ar, debug_assertions>>

InitNewick ==
    /\ \E kind \in {"Compact", "Simple"}, f \in NewickFiles : nw = Fresh(kind, f)
    /\ nx = [i \in {1, 2} |-> Absent]
    /\ out = [i \in {1, 2} |-> NoCalls]
    /\ calls = 0
    /\ ls = Idle
    /\ rs = Idle
    /\ tb = Idle
    /\ lb = Idle
    /\ ar = Idle
    /\ debug_assertions \in BOOLEAN

NextNewick ==
    ParseStr \/ ParseAll \/ IntoIter \/ IterNext \/ PostOrder \/ ParseStrAgain

SpecNewick == InitNewick /\ [][NextNewick]_vars

(***************************************************************************)
(* A tree builder driven directly by a caller: init_next, the add_* calls  *)
(* (children are the two vertices added last, as the Newick parser passes  *)
(* them) and finish_tree, in any order.  since counts the add_* calls that *)
(* returned since the last init_next, opened tells whether init_next was   *)
(* called since the last finish_tree.                                      *)
(***************************************************************************)
MaxVertices == 3
MaxFinished == 2

NewBuilder(kind) ==
    [state |-> "live", kind |-> kind, builder |-> TreeBuilder_new(kind),
     opened |-> FALSE, since |-> 0, handed |-> <<>>, last |-> "new"]

Vertices(builder) ==
    IF builder.current_tree.some THEN Len(builder.current_tree.v.vertices) ELSE 0

LeafLabel(kind, k) == IF kind = "Compact" THEN k ELSE NewickTips[k + 1]

\* the outcome r of an add_* call
Added(op, r) ==
    tb' = [tb EXCEPT !.state = IF r.st = "ok" THEN "live" ELSE "aborted",
                     !.builder = r.builder,
                     !.since = IF r.st = "ok" THEN @ + 1 ELSE @,
                     !.last = op]

InitNext ==
    /\ tb.state = "live"
    /\ Len(tb.handed) < MaxFinished
    /\ \E num_leaves \in {0, 2} :
          \E r \in {init_next(tb.builder, num_leaves)} :
              tb' = [tb EXCEPT !.state = IF r.st = "ok" THEN "live" ELSE "aborted",
                               !.builder = r.builder,
                               !.opened = r.st = "ok" \/ @,
                               !.since = IF r.st = "ok" THEN 0 ELSE @,
                               !.last = "init_next"]
    /\ UNCHANGED <<nx, out, calls, nw, ls, rs, lb, ar, debug_assertions>>

AddLeaf ==
    /\ tb.state = "live"
    /\ Vertices(tb.builder) < MaxVertices
    /\ \E branch_len \in {None, Some([neg |-> TRUE, inf |-> FALSE, mant |-> 1, exp |-> 0])} :
          \E r \in {add_leaf(tb.builder, branch_len,
                             LeafLabel(tb.kind, Vertices(tb.builder)))} :
              Added("add_leaf", r)
    /\ UNCHANGED <<nx, out, calls, nw, ls, rs, lb, ar, debug_assertions>>

AddInternal ==
    /\ tb.state = "live"
    /\ Vertices(tb.builder) < MaxVertices
    /\ \E n \in {Vertices(tb.builder)} :
          \E r \in {add_internal(tb.builder, <<n - 2, n - 1>>, None)} :
              Added("add_internal", r)
    /\ UNCHANGED <<nx, out, calls, nw, ls, rs, lb, ar, debug_assertions>>

AddRoot ==
    /\ tb.state = "live"
    /\ Vertices(tb.builder) < MaxVertices
    /\ \E n \in {Vertices(tb.builder)} :
          \E r \in {add_root(tb.builder, <<n - 2, n - 1>>, None)} :
              Added("add_root", r)
    /\ UNCHANGED <<nx, out, calls, nw, ls, rs, lb, ar, debug_assertions>>

FinishTree ==
    /\ tb.state = "live"
    /\ Len(tb.handed) < MaxFinished
    /\ \E r \in {finish_tree(tb.builder)} :
          tb' = [tb EXCEPT !.builder = r.builder,
                           !.opened = FALSE,
                           !.handed = Append(@, [tree |-> r.tree, opened |-> tb.opened,
                                                 since |-> tb.since]),
                           !.last = "finish_tree"]
    /\ UNCHANGED <<nx, out, calls, nw, ls, rs, lb, ar, debug_assertions>>

InitBuilder ==
    /\ \E kind \in {"Compact", "Simple"} : tb = NewBuilder(kind)
    /\ nx = [i \in {1, 2} |-> Absent]
    /\ out = [i \in {1, 2} |-> NoCalls]
    /\ calls = 0
    /\ nw = Idle
    /\ ls = Idle
    /\ rs = Idle
    /\ lb = Idle
    /\ ar = Idle
    /\ debug_assertions \in BOOLEAN

NextBuilder == InitNext \/ AddLeaf \/ AddInternal \/ AddRoot \/ FinishTree

SpecBuilder == InitBuilder /\ [][NextBuilder]_vars

(***************************************************************************)
(* Labels handed to escape_label and then to unescape_label                *)
(***************************************************************************)
MaxLabelLen == 3

LabelBytes == {"a", "_", " ", "'", ","}

Labels == UNION {[1..n -> LabelBytes] : n \in 0..MaxLabelLen}

EscapeLabel ==
    /\ lb.state = "new"
    /\ lb' = [lb EXCEPT !.state = "escaped", !.escaped = escape_label(lb.label)]
    /\ UNCHANGED <<nx, out, calls, nw, ls, rs, tb, ar, debug_assertions>>

UnescapeLabel ==
    /\ lb.state = "escaped"
    /\ lb' = [lb EXCEPT !.state = "unescaped", !.unescaped = unescape_label(lb.escaped)]
    /\ UNCHANGED <<nx, out, calls, nw, ls, rs, tb, ar, debug_assertions>>

\* a ByteParser over an opening quote and the bytes of the label, which is
\* all that is left of the input: parse_quoted_label at the quote
QuotedInput(label) == <<"'">> \o label

ParseQuotedLabel ==
    /\ lb.state = "new"
    /\ \E r \in {parse_quoted_label(QuotedInput(lb.label), 0)} :
          lb' = [lb EXCEPT !.state = "parsed",
                           !.parsed = Some([st |-> r.st, pos |-> r.pos,
                                            label |-> IF r.st = "ok" THEN r.label
                                                      ELSE <<>>])]
    /\ UNCHANGED <<nx, out, calls, nw, ls, rs, tb, ar, debug_assertions>>

InitLabels ==
    /\ \E label \in Labels :
          lb = [state |-> "new", label |-> label, escaped |-> <<>>, unescaped |-> <<>>,
                parsed |-> None]
    /\ nx = [i \in {1, 2} |-> Absent]
    /\ out = [i \in {1, 2} |-> NoCalls]
    /\ calls = 0
    /\ nw = Idle
    /\ ls = Idle
    /\ rs = Idle
    /\ tb = Idle
    /\ ar = Idle
    /\ debug_assertions = FALSE

NextLabels == EscapeLabel \/ UnescapeLabel \/ ParseQuotedLabel

SpecLabels == InitLabels /\ [][NextLabels]_vars

(***************************************************************************)
(* A label storage and a table-based resolver driven directly by a caller. *)
(* The storage gets store_and_ref calls; the resolver is built over the    *)
(* taxa A, B, C and a TRANSLATE table that maps some of the keys B, 1, c   *)
(* (TableKeys) to the taxon at the same position, and gets resolve_label   *)
(* calls with tokens that are keys, positions, taxon names or none of      *)
(* them.                                                                   *)
(***************************************************************************)
MaxLabels == 3
MaxResolves == 2

StorageCapacity == 2

Tokens ==
    {<<"A">>, <<"B">>, <<"C">>, <<"c">>, <<"x">>, <<"0">>, <<"1">>, <<"2">>, <<"4">>}

RECURSIVE StoreAll(_, _)
StoreAll(storage, labels) ==
    IF labels = <<>> THEN storage
    ELSE StoreAll(store_and_ref(storage, Head(labels)).storage, Tail(labels))

\* the taxa of a resolver: TaxaLists[1], or the same with the third taxon
\* named 4 (a name that reads as an index beyond Ntax)
ResolverTaxa == {TaxaLists[1], << <<"A">>, <<"B">>, <<"4">> >>}

StorageOf(kind, taxa) == StoreAll(with_capacity(kind, Len(taxa)), taxa)

\* the tables over some of the TableKeys: key i stands for taxon i
Translations(taxa) ==
    {[key \in {TableKeys[i] : i \in K} |->
         taxa[CHOOSE i \in K : TableKeys[i] = key]] :
        K \in (SUBSET (1..Len(TableKeys))) \ {{}}}

StoreAndRef ==
    /\ ls.state = "live"
    /\ Len(ls.storage.labels) < MaxLabels
    /\ \E label \in {TaxaLists[1][i] : i \in 1..Len(TaxaLists[1])} :
          \E r \in {store_and_ref(ls.storage, label)} :
              ls' = [ls EXCEPT
                       !.state = IF r.st = "ok" THEN "live" ELSE "aborted",
                       !.storage = r.storage,
                       !.last = [op |-> "store_and_ref", label |-> label, st |-> r.st,
                                 ref |-> r.ref,
                                 before |-> check_and_ref(ls.storage, label),
                                 num_labels |-> num_labels(ls.storage)]]
    /\ UNCHANGED <<nx, out, calls, nw, rs, tb, lb, ar, debug_assertions>>

NewResolver ==
    /\ rs.state = "new"
    /\ \E r \in {new_nexus_labels_resolver(rs.translation,
                                             StorageOf(rs.kind, rs.taxa))} :
          rs' = IF r.st = "ok"
                THEN [rs EXCEPT !.state = "built", !.resolver = Some(r.resolver)]
                ELSE [rs EXCEPT !.state = "aborted"]
    /\ UNCHANGED <<nx, out, calls, nw, ls, tb, lb, ar, debug_assertions>>

ResolveLabel ==
    /\ rs.state = "built"
    /\ rs.resolves < MaxResolves
    /\ \E parsed_label \in Tokens :
          \E r \in {resolve_label(rs.resolver.v, parsed_label)} :
              rs' = [rs EXCEPT
                       !.resolver = Some(r.resolver),
                       !.resolves = @ + 1,
                       !.last = [op |-> "resolve_label", label |-> parsed_label,
                                 st |-> r.st,
                                 ref |-> IF r.st = "ok" THEN Some(r.ref) ELSE None]]
    /\ UNCHANGED <<nx, out, calls, nw, ls, tb, lb, ar, debug_assertions>>

InitStorage ==
    /\ \E kind \in {"Compact", "Simple"} :
          ls = [state |-> "live", kind |-> kind,
                storage |-> with_capacity(kind, StorageCapacity),
                last |-> [op |-> "new"]]
    /\ \E kind \in {"Compact", "Simple"}, taxa \in ResolverTaxa :
        \E translation \in Translations(taxa) :
          rs = [state |-> "new", kind |-> kind, translation |-> translation,
                taxa |-> taxa,
                resolver |-> None, resolves |-> 0, last |-> [op |-> "new"]]
    /\ nx = [i \in {1, 2} |-> Absent]
    /\ out = [i \in {1, 2} |-> NoCalls]
    /\ calls = 0
    /\ nw = Idle
    /\ tb = Idle
    /\ lb = Idle
    /\ ar = Idle
    /\ debug_assertions \in BOOLEAN

NextStorage == StoreAndRef \/ NewResolver \/ ResolveLabel

SpecStorage == InitStorage /\ [][NextStorage]_vars

(***************************************************************************)
(* SpecArena: a caller that fills a GenTree<LabelIndex> through add_leaf,  *)
(* add_internal_vertex and add_root with child indices of its choice,      *)
(* asks is_valid once the root is set, and asks for the height of a        *)
(* vertex of a tree that is_valid accepted.  Leaves are labelled 0, 1, ..  *)
(* in the order they are added; the leaf labelled k has the branch length  *)
(* (k + 1) / 2 and every internal vertex the length 2.                     *)
(***************************************************************************)
MaxArena == 5

LeafLength(label) == round_f64([neg |-> FALSE, inf |-> FALSE, mant |-> 5 * (label + 1),
                                exp |-> 0 - 1])

InternalLength == round_f64([neg |-> FALSE, inf |-> FALSE, mant |-> 2, exp |-> 0])

\* the child pairs a caller can name for the vertex it adds to the tree
ChildPairs(tree) == (0..Len(tree.vertices)) \X (0..Len(tree.vertices))

Grown(r) == IF r.st = "ok" THEN "open" ELSE "aborted"

ArenaAddLeaf ==
    /\ ar.state = "open"
    /\ Len(ar.tree.vertices) < MaxArena
    /\ \E label \in {num_leaves_of(ar.tree)} :
          \E r \in {GenTree_add_leaf(ar.tree, Some(LeafLength(label)), label)} :
              ar' = [ar EXCEPT !.state = Grown(r), !.tree = r.tree]
    /\ UNCHANGED <<nx, out, calls, nw, ls, rs, tb, lb, debug_assertions>>

ArenaAddInternal ==
    /\ ar.state = "open"
    /\ Len(ar.tree.vertices) < MaxArena
    /\ \E children \in ChildPairs(ar.tree) :
          \E r \in {GenTree_add_internal_vertex(ar.tree, children,
                                                Some(InternalLength))} :
              ar' = [ar EXCEPT !.state = Grown(r), !.tree = r.tree]
    /\ UNCHANGED <<nx, out, calls, nw, ls, rs, tb, lb, debug_assertions>>

\* tree.add_root_without_branch(children): the caller adds the root last
ArenaAddRoot ==
    /\ ar.state = "open"
    /\ Len(ar.tree.vertices) < MaxArena
    /\ \E children \in ChildPairs(ar.tree) :
          \E r \in {GenTree_add_root(ar.tree, children, None)} :
              ar' = [ar EXCEPT !.state = IF r.st = "ok" THEN "rooted" ELSE "aborted",
                               !.tree = r.tree]
    /\ UNCHANGED <<nx, out, calls, nw, ls, rs, tb, lb, debug_assertions>>

\* tree.is_valid()
IsValid ==
    /\ ar.state = "rooted"
    /\ ~ar.valid.some
    /\ ar' = [ar EXCEPT !.valid = Some(is_valid("Compact", ar.tree))]
    /\ UNCHANGED <<nx, out, calls, nw, ls, rs, tb, lb, debug_assertions>>

\* tree.height_of(&tree[index]) on a tree that is_valid accepted, with the
\* height_of of GenTree or of Tree
HeightOf ==
    /\ ar.state = "rooted"
    /\ ar.valid = Some(TRUE)
    /\ ~ar.height.some
    /\ \E index \in 0..(Len(ar.tree.vertices) - 1), of \in {"GenTree", "Tree"} :
          \E r \in {IF of = "GenTree"
                    THEN height_of(ar.tree, ar.tree.vertices[index + 1])
                    ELSE Tree_height_of(ar.tree, ar.tree.vertices[index + 1])} :
              ar' = [ar EXCEPT
                       !.state = IF r.st = "ok" THEN "rooted" ELSE "aborted",
                       !.height = Some([index |-> index, of |-> of, st |-> r.st,
                                        height |-> IF r.st = "ok" THEN r.height
                                                   ELSE f64_zero])]
    /\ UNCHANGED <<nx, out, calls, nw, ls, rs, tb, lb, debug_assertions>>

InitArena ==
    /\ ar = [state |-> "open", tree |-> GenTree_new(div_ceil(MaxArena, 2)),
             valid |-> None, height |-> None]
    /\ nx = [i \in {1, 2} |-> Absent]
    /\ out = [i \in {1, 2} |-> NoCalls]
    /\ calls = 0
    /\ nw = Idle
    /\ ls = Idle
    /\ rs = Idle
    /\ tb = Idle
    /\ lb = Idle
    /\ debug_assertions \in BOOLEAN

NextArena == ArenaAddLeaf \/ ArenaAddInternal \/ ArenaAddRoot \/ IsValid \/ HeightOf

SpecArena == InitArena /\ [][NextArena]_vars

(***************************************************************************)
(* Properties of Spec                                                      *)
(***************************************************************************)
Finished(i) == nx[i].state \in {"consumed", "failed"}

\* both parsers read the same well-formed file under the same configuration,
\* the first in eager and the second in lazy mode
ModePair ==
    /\ nx[1].state # "absent" /\ nx[2].state # "absent"
    /\ nx[1].desc \in ValidDescs
    /\ nx[1].desc = nx[2].desc
    /\ ~nx[1].cfg.lazy
    /\ nx[2].cfg = InMode(nx[1].cfg, TRUE)

\* both parsers run under one configuration; the first file has the
\* TRANSLATE keys 1..n in declaration order, the second has no TRANSLATE
\* command and the taxon names as tip tokens.  Without TRANSLATE a TREES
\* block has to start with a tree, so the files hold one tree at least.
StylePair ==
    /\ nx[1].state # "absent" /\ nx[2].state # "absent"
    /\ nx[1].desc \in ValidDescs
    /\ nx[1].desc.n > 0
    /\ nx[1].desc.translate = "int"
    /\ nx[2].desc = [nx[1].desc EXCEPT !.translate = "none"]
    /\ nx[1].cfg = nx[2].cfg

\* what a finished parser handed to its caller: the trees and their
\* Newick texts, or nothing
Yield(i) ==
    IF out[i].results.st = "ok"
    THEN [st |-> "ok", trees |-> out[i].results.trees, newick |-> out[i].results.newick]
    ELSE [st |-> "nothing"]

\* C3: for a well-formed NEXUS file and a fixed burn-in / skip-first
\* configuration, the eager and the lazy parser yield the same sequence of
\* retained trees: same number, same order, same Newick texts.
C3_EagerLazySameTrees ==
    (ModePair /\ Finished(1) /\ Finished(2)) => Yield(1) = Yield(2)

\* C5: a parse that does not succeed returns a ParsingError, with byte
\* position and context, to its caller: it neither panics nor runs forever.
C5_ErrorIsReturned ==
    \A i \in {1, 2} :
        nx[i].state = "failed" =>
            \/ out[i].build.st = "err"
               /\ DOMAIN out[i].build.err = {"kind", "position", "context"}
            \/ out[i].results.st = "err"
               /\ DOMAIN out[i].results.err = {"kind", "position", "context"}

\* C6: with skip_first and Burnin::Count(k), on a well-formed file with T
\* trees, num_trees() is T - 1 - k, or 0 when 1 + k exceeds T.
C6_KeptCount ==
    \A i \in {1, 2} :
        (/\ nx[i].state = "built"
         /\ nx[i].desc \in ValidDescs
         /\ nx[i].cfg.skip_first
         /\ nx[i].cfg.burnin.kind = "Count")
        => nx[i].p.num_trees =
               IF 1 + nx[i].cfg.burnin.n > nx[i].desc.n THEN 0
               ELSE nx[i].desc.n - 1 - nx[i].cfg.burnin.n

\* C7: on a well-formed file with T trees, T > 0, the start position is
\* s + c, with s = 1 under skip_first and 0 otherwise, and c = k for
\* Burnin::Count(k) and floor((T - s) * p) for Burnin::Percentage(p).
C7_StartPosition ==
    \A i \in {1, 2} :
        (nx[i].state = "built" /\ nx[i].desc \in ValidDescs /\ nx[i].desc.n > 0)
        => \E s \in {IF nx[i].cfg.skip_first THEN 1 ELSE 0} :
               nx[i].p.start_tree_pos =
                   s + IF nx[i].cfg.burnin.kind = "Count" THEN nx[i].cfg.burnin.n
                       ELSE ((nx[i].desc.n - s) * nx[i].cfg.burnin.num)
                                \div nx[i].cfg.burnin.den

\* C8: a file with the integer TRANSLATE keys 1..n in declaration order and
\* the same file without TRANSLATE and with the taxon names as tip tokens
\* yield the same resolved trees, leaf label references included.
C8_IntegerKeysAsLiteralNames ==
    (StylePair /\ Finished(1) /\ Finished(2)) =>
        /\ out[1].results.st = out[2].results.st
        /\ out[1].results.st = "ok" => out[1].results.trees = out[2].results.trees

(***************************************************************************)
(* Properties of SpecRetrieve                                              *)
(***************************************************************************)
\* C10: after reset() the retrievals repeat the earlier pass item by item,
\* from the first retained tree on; reset puts tree_pos back to
\* start_tree_pos; in lazy mode it rewinds the byte cursor to the first
\* retained tree, in eager mode the byte cursor never moves after build.
C10_ResetRepeatsFirstPass ==
    nx[1].state = "built" =>
        /\ \A k \in 1..Len(out[1].pass) :
               k <= Len(out[1].ref) => out[1].pass[k] = out[1].ref[k]
        /\ out[1].last.op = "reset" =>
               /\ nx[1].p.tree_pos = nx[1].p.start_tree_pos
               /\ nx[1].p.mode.kind = "Lazy" =>
                      nx[1].p.pos = nx[1].p.mode.start_byte_pos
        /\ nx[1].p.mode.kind = "Eager" => nx[1].p.pos = out[1].build_pos

\* a lazy parser that was reset after two trees and has returned both again
C10_Witness ==
    /\ nx[1].state = "built"
    /\ nx[1].p.mode.kind = "Lazy"
    /\ Len(out[1].ref) >= 2
    /\ Len(out[1].pass) >= 2
    /\ out[1].pass[2].st = "ok" /\ out[1].pass[2].tree.some

(***************************************************************************)
(* Further properties of Spec                                              *)
(***************************************************************************)
\* C12: when the number of labels in the Taxlabels command differs from
\* the Ntax value, building the parser fails with an InvalidTaxaBlock error.
C12_NtaxMismatchIsTaxaError ==
    \A i \in {1, 2} :
        (/\ nx[i].state \notin {"absent", "new"}
         /\ nx[i].desc.cut = Whole
         /\ nx[i].desc.ntax # Len(TaxaLists[nx[i].desc.taxa]))
        => /\ out[i].build.st = "err"
           /\ out[i].build.err.kind = "InvalidTaxaBlock"

Counts(i) ==
    [num_total_trees |-> nx[i].p.num_total_trees, num_trees |-> nx[i].p.num_trees,
     start_tree_pos |-> nx[i].p.start_tree_pos]

\* C18: on a well-formed file, under one skip_first / burn-in setting, the
\* two-pass strategy (the lazy parser) and the one-pass strategy (the eager
\* parser under an insignificant burn-in) give the same num_total_trees,
\* num_trees and start position and the same retained trees.
C18_TwoPassAsOnePass ==
    (/\ ModePair
     /\ ~significant(nx[1].cfg.burnin)
     /\ nx[1].state # "new" /\ nx[2].state # "new")
    => /\ out[1].build.st = out[2].build.st
       /\ out[1].build.st = "ok" => Counts(1) = Counts(2)
       /\ (Finished(1) /\ Finished(2)) => Yield(1) = Yield(2)

\* C19: after initialization num_trees + start_tree_pos = num_total_trees and
\* num_trees <= num_total_trees, for every total tree count and every
\* combination of skip_first and burn-in.
C19_CountsAddUp ==
    \A i \in {1, 2} :
        (nx[i].state = "built" /\ nx[i].desc \in ValidDescs)
        => /\ nx[i].p.num_trees + nx[i].p.start_tree_pos = nx[i].p.num_total_trees
           /\ nx[i].p.num_trees <= nx[i].p.num_total_trees

(***************************************************************************)
(* A further property of SpecRetrieve                                      *)
(***************************************************************************)
\* C20: start_tree_pos <= tree_pos < num_total_trees holds in every state
\* reachable after initialization by next_tree, next_tree_ref and reset.
C20_TreePosInRange ==
    nx[1].state = "built" =>
        /\ nx[1].p.start_tree_pos <= nx[1].p.tree_pos
        /\ nx[1].p.tree_pos < nx[1].p.num_total_trees

(***************************************************************************)
(* Properties of SpecNewick                                                *)
(***************************************************************************)
\* C1: for every valid input, each tree returned by a successful parse
\* satisfies is_valid() when it is returned.
C1_ReturnedTreesAreValid ==
    WellFormedFile(nw.file) =>
        \A k \in 1..Len(Trees) : is_valid(nw.kind, Trees[k])

\* C2: every tree a successful parse returns, with n leaves, holds exactly
\* 2n-1 vertices, exactly one of which is a Root.
C2_VertexAndRootCount ==
    \A k \in 1..Len(Trees) :
        /\ num_vertices(Trees[k]) = 2 * num_leaves_of(Trees[k]) - 1
        /\ num_roots_of(Trees[k]) = 1

C2_Witness ==
    \E k \in 1..Len(Trees) : num_leaves_of(Trees[k]) = 3 /\ num_vertices(Trees[k]) = 5

GrammarError(err) == err.kind \in {"UnexpectedEOF", "InvalidNewickString"}

Defective(k) == k <= Len(nw.file.trees) /\ nw.file.trees[k].defect # "none"

\* the input is well formed but for its punctuation defect
OnlyDefect ==
    /\ nw.file.sep # <<"[", "c">>
    /\ \A k \in 1..Len(nw.file.trees) : nw.file.trees[k].len \in GoodLengths

\* C13: a Newick text with a missing ';', a missing ',' between two children
\* or an unmatched parenthesis is not parsed: the call (parse_str, parse_all,
\* or the iterator's next that reaches the text) returns an UnexpectedEOF or
\* InvalidNewickString error.
C13_GrammarErrors ==
    OnlyDefect =>
        \A j \in 1..Len(nw.got) :
            /\ (nw.got[j].op = "parse_str" /\ Defective(1))
               => nw.got[j].st = "err" /\ GrammarError(nw.got[j].err.v)
            /\ (nw.got[j].op = "parse_all" /\ \E k \in 1..Len(nw.file.trees) : Defective(k))
               => nw.got[j].st = "err" /\ GrammarError(nw.got[j].err.v)
            /\ (nw.got[j].op = "next" /\ Defective(j) /\ \A i \in 1..(j - 1) : ~Defective(i))
               => /\ nw.got[j].st = "ok" /\ nw.got[j].item.some
                  /\ nw.got[j].item.v.st = "err" /\ GrammarError(nw.got[j].item.v.err)

C13_Witness ==
    /\ OnlyDefect
    /\ Len(nw.file.trees) = 2 /\ Defective(2)
    /\ Len(nw.got) = 2 /\ nw.got[2].op = "next"
    /\ nw.got[1].trees # <<>>
    /\ nw.got[2].item.some /\ nw.got[2].item.v.st = "err"

\* every tree the caller holds, and the tree under construction in the builder
AllTrees ==
    {Trees[k] : k \in 1..Len(Trees)}
    \cup (IF nw.np.tree_builder.current_tree.some
          THEN {nw.np.tree_builder.current_tree.v} ELSE {})
    \cup (IF nw.it.some /\ nw.it.v.parser.tree_builder.current_tree.some
          THEN {nw.it.v.parser.tree_builder.current_tree.v} ELSE {})

\* C14: every branch length stored in a vertex of a tree is finite and >= 0;
\* a negative or non-finite length aborts in BranchLength::new before it
\* reaches a vertex.
C14_StoredLengthsFiniteNonNegative ==
    \A t \in AllTrees : \A i \in 1..Len(t.vertices) :
        t.vertices[i].branch_length.some
        => /\ f64_is_finite(t.vertices[i].branch_length.v)
           /\ f64_ge_zero(t.vertices[i].branch_length.v)

\* a text with the length -1 was parsed: the call aborted with the first
\* leaf not in the tree
C14_Witness ==
    /\ nw.state = "aborted"
    /\ nw.file.trees # <<>> /\ nw.file.trees[1].len = 4
    /\ AllTrees # {}
    /\ \A t \in AllTrees : t.vertices = <<>>

\* the item a call of next gave back ended the iteration: None or an error
Ended(g) == g.st = "ok" /\ (~g.item.some \/ g.item.v.st = "err")

\* C15: the iterator returns None whenever the cursor, after skipping
\* comments and whitespace, is at EOF (the first call on an input without a
\* tree included), and once it returned None or an error it yields no
\* further item.
C15_EndOfInputIsNone ==
    \A j \in 1..Len(nw.got) :
        nw.got[j].op = "next" =>
            /\ nw.got[j].at_end => nw.got[j].st = "ok" /\ ~nw.got[j].item.some
            /\ (\E i \in 1..(j - 1) : Ended(nw.got[i]))
               => nw.got[j].st = "ok" /\ ~nw.got[j].item.some

Position(items, index) == CHOOSE p \in 1..Len(items) : items[p].index = index

\* C16: post_order_iter on a valid tree yields every vertex of the arena
\* exactly once, a vertex only after both of its children, the root last,
\* and ends after num_vertices items.
C16_PostOrder ==
    (nw.visit.some /\ is_valid(nw.kind, nw.visit.v.tree)) =>
        \E tree \in {nw.visit.v.tree}, items \in {nw.visit.v.items} :
            /\ Len(items) = num_vertices(tree)
            /\ \A i \in 1..Len(tree.vertices) :
                  Cardinality({p \in 1..Len(items) : items[p] = tree.vertices[i]}) = 1
            /\ \A p \in 1..Len(items) :
                  has_children(items[p]) =>
                      /\ Position(items, items[p].children[1]) < p
                      /\ Position(items, items[p].children[2]) < p
            /\ items[Len(items)] = tree.vertices[tree.root_index + 1]

C16_Witness ==
    /\ nw.visit.some /\ is_valid(nw.kind, nw.visit.v.tree)
    /\ num_vertices(nw.visit.v.tree) = 5
    /\ Len(nw.visit.v.items) = 5
    /\ is_internal(nw.visit.v.items[3])

(***************************************************************************)
(* Properties of SpecBuilder                                               *)
(***************************************************************************)
\* C11: finish_tree returns the tree built since the last init_next and
\* leaves the builder empty: a second finish_tree without an init_next in
\* between returns no tree, and the tree built after the next init_next
\* holds only the vertices added after it.
C11_FinishTreeEmptiesBuilder ==
    /\ tb.last = "finish_tree" => ~tb.builder.current_tree.some
    /\ \A k \in 1..Len(tb.handed) :
          /\ tb.handed[k].tree.some = tb.handed[k].opened
          /\ tb.handed[k].tree.some
             => Len(tb.handed[k].tree.v.vertices) = tb.handed[k].since

C11_Witness ==
    /\ Len(tb.handed) = 2
    /\ tb.handed[1].tree.some /\ Len(tb.handed[1].tree.v.vertices) = 3
    /\ tb.handed[2].tree.some /\ Len(tb.handed[2].tree.v.vertices) = 1

RECURSIVE Closes(_)
Closes(text) ==
    IF text = <<>> THEN FALSE
    ELSE IF Head(text) # "'" THEN Closes(Tail(text))
    ELSE IF Len(text) >= 2 /\ text[2] = "'" THEN Closes(Tail(Tail(text)))
    ELSE TRUE

\* C29: parse_quoted_label returns an error when the input ends before the
\* closing single quote of the label is found.
C29_UnclosedQuoteIsError ==
    (lb.state = "parsed" /\ ~Closes(lb.label)) => lb.parsed.v.st = "err"

(***************************************************************************)
(* Properties of SpecStorage                                               *)
(***************************************************************************)
\* C4: under the table-based resolver a tip token that equals a TRANSLATE
\* key resolves to the label the table maps the key to, also when the token
\* parses as a 1-based index or equals a taxon label.
C4_KeyResolvesThroughTable ==
    (rs.last.op = "resolve_label" /\ rs.last.label \in DOMAIN rs.translation)
    => /\ rs.last.st = "ok"
       /\ rs.last.ref = Some(check_and_ref(StorageOf(rs.kind, rs.taxa),
                                           rs.translation[rs.last.label]).ref)

\* the token 1 is a key for B, while the taxon at position 1 is A
C4_Witness ==
    /\ rs.last.op = "resolve_label" /\ rs.last.label = <<"1">>
    /\ <<"1">> \in DOMAIN rs.translation
    /\ rs.kind = "Simple" /\ rs.last.ref = Some(<<"B">>)

\* C9: for both label storages store_and_ref always succeeds, and storing a
\* label that is already stored returns the reference of the existing entry
\* and adds no entry (num_labels is unchanged).
C9_StoreAndRefDeduplicates ==
    ls.last.op = "store_and_ref" =>
        /\ ls.last.st = "ok"
        /\ ls.last.before.some =>
              /\ ls.last.ref = ls.last.before.ref
              /\ num_labels(ls.storage) = ls.last.num_labels

(***************************************************************************)
(* Properties of Spec: declared labels, termination of build               *)
(***************************************************************************)
\* the label reference of a leaf denotes a label of the TAXA block: a
\* LabelIndex below Ntax, or (SimpleTree) the label itself
Declared(i, label) ==
    IF nx[i].cfg.tree_builder = "Compact"
    THEN label \in 0..(nx[i].desc.ntax - 1)
    ELSE \E k \in 1..Len(TaxaLists[nx[i].desc.taxa]) :
             TaxaLists[nx[i].desc.taxa][k] = label

\* C24: in a NEXUS parse every leaf label reference of every returned tree
\* denotes one of the labels declared in the TAXA block, whichever resolver
\* is active.
C24_LeafLabelsAreDeclared ==
    \A i \in {1, 2} :
        out[i].results.st = "ok" =>
            \A k \in 1..Len(out[i].results.trees) :
                \A j \in 1..Len(out[i].results.trees[k].vertices) :
                    is_leaf(out[i].results.trees[k].vertices[j])
                    => Declared(i, out[i].results.trees[k].vertices[j].label)

\* C21: building a NEXUS parser terminates on every finite input: build()
\* returns an initialized parser or an error and never loops forever, also
\* when the input ends inside the Taxlabels command.
C21_BuildTerminates ==
    \A i \in {1, 2} : out[i].build.st # "hang"

(***************************************************************************)
(* Further properties of SpecNewick                                        *)
(***************************************************************************)
\* the branch lengths of LengthTexts that are negative or beyond f64::MAX
BadLengths == {4, 5}

\* the first call on the parser met a tree whose first tip carries a
\* negative or non-finite branch length
BadLengthParsed ==
    /\ Len(nw.file.trees) = 1
    /\ nw.file.trees[1].defect = "none"
    /\ nw.file.trees[1].len \in BadLengths
    /\ Len(nw.got) >= 1

\* C25: a branch length that parses to a negative or non-finite number is
\* rejected with a parsing error returned to the caller (the call does not
\* panic and returns no tree).
C25_BadLengthIsParsingError ==
    BadLengthParsed =>
        IF nw.got[1].op = "next"
        THEN /\ nw.got[1].st = "ok"
             /\ nw.got[1].item.some
             /\ nw.got[1].item.v.st = "err"
        ELSE nw.got[1].st = "err"

\* C26: whenever the Newick parser calls init_next the leaf count it passes
\* is at least 1, also in a call that follows a failed parse on the same
\* parser.
C26_InitNextGetsPositiveCount ==
    \A j \in 1..Len(nw.got) :
        nw.got[j].op = "parse_str_again" => nw.got[j].num_leaves >= 1

(***************************************************************************)
(* Further properties of SpecRetrieve                                      *)
(***************************************************************************)
\* C27: in lazy mode the next_tree calls on a freshly built or reset parser
\* return num_trees() trees without error and then Ok(None) on every
\* further call.
C27_LazyPassYieldsNumTrees ==
    (nx[1].state \in {"built", "failed"} /\ out[1].build.st = "ok"
     /\ nx[1].p.mode.kind = "Lazy") =>
        \A k \in 1..Len(out[1].pass) :
            /\ out[1].pass[k].st = "ok"
            /\ out[1].pass[k].tree.some <=> k <= nx[1].p.num_trees

\* the byte position of the first TREE command of a file (of `End;` when
\* the file has no tree): where the cursor is when init counts the trees
FirstTreeOffset(desc) ==
    Len(FileText([desc EXCEPT !.n = 0])) - Len(BLOCK_END \o NL)

\* build called count_trees and moved past no tree afterwards
CountedOnly ==
    /\ nx[1].state = "built"
    /\ out[1].last.op = "none"
    /\ nx[1].p.mode.kind = "Lazy"
    /\ nx[1].p.start_tree_pos = 0

\* C30: count_trees leaves the byte cursor where it found it, and the value
\* it returns (stored as num_total_trees) is the number of TREE commands
\* between that position and the block end.
C30_CountTreesRestoresCursor ==
    CountedOnly =>
        /\ nx[1].p.pos = FirstTreeOffset(nx[1].desc)
        /\ nx[1].p.num_total_trees = nx[1].desc.n

\* the taxon the three stages give for a token, tried in order: the taxon
\* its TRANSLATE key stands for, else the taxon at its 1-based index, else
\* the taxon of that name; None when all three stages fail
FirstStage(translation, taxa, token) ==
    IF token \in DOMAIN translation THEN Some(translation[token])
    ELSE IF parse_usize(token).ok /\ parse_usize(token).v \in 1..Len(taxa)
    THEN Some(taxa[parse_usize(token).v])
    ELSE IF \E i \in 1..Len(taxa) : taxa[i] = token THEN Some(token)
    ELSE None

\* C23: under the table-based resolver the stages TRANSLATE key, 1-based
\* index and verbatim label are tried in order until one succeeds, and the
\* unresolved-label error is raised only when all three fail for the token.
C23_StagesInOrder ==
    rs.last.op = "resolve_label" =>
        \E want \in {FirstStage(rs.translation, rs.taxa, rs.last.label)} :
            IF want.some
            THEN /\ rs.last.st = "ok"
                 /\ rs.last.ref =
                        Some(check_and_ref(StorageOf(rs.kind, rs.taxa), want.v).ref)
            ELSE rs.last.st = "err"

(***************************************************************************)
(* Properties of SpecArena                                                 *)
(***************************************************************************)
\* the indices a vertex names as its children
ChildrenOf(tree, i) ==
    IF has_children(tree.vertices[i + 1])
    THEN {tree.vertices[i + 1].children[1], tree.vertices[i + 1].children[2]}
         \cap (0..(Len(tree.vertices) - 1))
    ELSE {}

\* S and all that is reached from S by following child indices
RECURSIVE Closure(_, _)
Closure(tree, S) ==
    IF (UNION {ChildrenOf(tree, i) : i \in S}) \subseteq S THEN S
    ELSE Closure(tree, S \cup UNION {ChildrenOf(tree, i) : i \in S})

Descendants(tree, i) == Closure(tree, ChildrenOf(tree, i))

\* every vertex is reachable from the root and none is its own ancestor
IsRootedTree(tree) ==
    /\ is_root_set(tree)
    /\ Closure(tree, {tree.root_index}) = 0..(Len(tree.vertices) - 1)
    /\ \A i \in 0..(Len(tree.vertices) - 1) : i \notin Descendants(tree, i)

\* C22: if is_valid() returns true the arena is a single rooted binary
\* tree: every vertex is reachable from the root by following child
\* indices and no vertex is its own ancestor.
C22_ValidIsRootedTree ==
    ar.valid = Some(TRUE) => IsRootedTree(ar.tree)

\* a finite f64 with one decimal place at most, in tenths
Tenths(v) == v.mant * pow10(v.exp + 1)

\* the vertices below vertex i on the path that follows the first child
\* down to a leaf (none when i is a leaf), in a rooted tree
RECURSIVE FirstChildPath(_, _)
FirstChildPath(tree, i) ==
    IF is_leaf(tree.vertices[i + 1]) THEN {}
    ELSE {tree.vertices[i + 1].children[1]}
         \cup FirstChildPath(tree, tree.vertices[i + 1].children[1])

RECURSIVE SumTenths(_, _)
SumTenths(tree, S) ==
    IF S = {} THEN 0
    ELSE LET i == CHOOSE j \in S : TRUE
         IN  Tenths(tree.vertices[i + 1].branch_length.v) + SumTenths(tree, S \ {i})

\* C28: for every vertex v of a valid tree whose non-root vertices all
\* carry branch lengths, height_of(v) returns the sum of the branch lengths
\* of the vertices on the path that follows the first child from v down to
\* a leaf, and 0 when v is a leaf.
C28_HeightIsFirstChildPathSum ==
    (ar.height.some /\ IsRootedTree(ar.tree)) =>
        /\ ar.height.v.st = "ok"
        /\ Tenths(ar.height.v.height)
               = SumTenths(ar.tree, FirstChildPath(ar.tree, ar.height.v.index))

====
